---- MODULE Spec2Model ----
(***************************************************************************)
(* Model of the tournament maker (src/src/app.jsx): the in-memory list of  *)
(* tournaments of the TournamentMaker component and the operations on it   *)
(* (createTournament, pickWinner, generateNextRound,                       *)
(* applyEntriesToTournament, confirmDelete, restoreTournament), and the    *)
(* box layout of the vector PDF export.                                    *)
(*                                                                         *)
(* Entrant names are numbers: n in 1..99 is a lower-case spelling and      *)
(* 100 + n the same name in another casing; 0 is a blank line.  Ids come   *)
(* from uid(), modelled as a counter of fresh values.  null is 0.          *)
(***************************************************************************)
EXTENDS Integers, Sequences, FiniteSets, TLC

VARIABLES isAdmin, tournaments, deletedTournaments, deleteTargetId, uidCtr, calls, last, layout,
          builder, net

vars == <<isAdmin, tournaments, deletedTournaments, deleteTargetId, uidCtr, calls, last, layout,
          builder, net>>

NULL == 0

\* ---------------------------------------------------------------- bounds
MaxTeams == 3
MaxTournaments == 2
MaxPlayTeams == 5
MaxDeepTeams == 9
MaxCalls == 5
MaxNewNames == 2
MaxLayoutTeams == 64

\* ------------------------------------------------------- sequence helpers
Range(s) == {s[i] : i \in DOMAIN s}

RECURSIVE SeqFilter(_, _)
SeqFilter(s, keep) ==
    IF s = <<>> THEN <<>>
    ELSE IF Head(s) \in keep THEN <<Head(s)>> \o SeqFilter(Tail(s), keep)
    ELSE SeqFilter(Tail(s), keep)

\* Array.prototype.findIndex, 1-based; 0 when nothing matches (-1 in the source)
FindIndex(s, hits) ==
    IF \E i \in DOMAIN s : s[i] \in hits
    THEN CHOOSE i \in DOMAIN s : s[i] \in hits /\ \A j \in 1..(i - 1) : s[j] \notin hits
    ELSE 0

\* ------------------------------------------------------------ nextPow2
RECURSIVE Pow2From(_, _)
Pow2From(p, n) == IF p < n THEN Pow2From(2 * p, n) ELSE p

nextPow2(n) == Pow2From(1, n)

RECURSIVE Log2(_)
Log2(n) == IF n <= 1 THEN 0 ELSE 1 + Log2(n \div 2)

\* ------------------------------------------------ generateRound1Matches
\* Object.fromEntries(teams.map(tm => [tm.name, tm.id]))[name]: the id of the
\* last team carrying the name, undefined (falsy, here NULL) when there is none
NameToId(teams, name) ==
    IF \E i \in DOMAIN teams : teams[i].name = name
    THEN teams[CHOOSE i \in DOMAIN teams :
                  teams[i].name = name /\ \A j \in (i + 1)..Len(teams) : teams[j].name # name].id
    ELSE NULL

\* arrays are 0-based functions, as in the source
Swap(a, i, j) == [a EXCEPT ![i] = a[j], ![j] = a[i]]

\* the Fisher-Yates loop from index i down to 1; Draws(i) is the set of values
\* Math.floor(Math.random() * (i + 1)) is drawn from
RECURSIVE Shuffles(_, _, _)
Shuffles(a, i, draws) ==
    IF i < 1 THEN {a}
    ELSE UNION {Shuffles(Swap(a, i, j), i - 1, draws) : j \in draws[i]}

\* every outcome of the draw at index i
AllDraws == [i \in 0..16 |-> 0..i]

ZeroBased(s) == [i \in 0..(Len(s) - 1) |-> s[i + 1]]

\* topAvail / botAvail interleaved, then the two seed-adjacent slots
RECURSIVE Interleave(_, _)
Interleave(top, bot) ==
    IF top = <<>> THEN bot
    ELSE IF bot = <<>> THEN top
    ELSE <<Head(top), Head(bot)>> \o Interleave(Tail(top), Tail(bot))

RECURSIVE Ascending(_, _)
Ascending(lo, hi) == IF lo > hi THEN <<>> ELSE <<lo>> \o Ascending(lo + 1, hi)

\* the fill order without order.push(1, size - 2)
FillOrderNoSeedAdjacent(size) ==
    LET half == size \div 2
        topAvail == SeqFilter(Ascending(0, half - 1), (0..(size - 1)) \ {0, 1})
        botAvail == SeqFilter(Ascending(half, size - 1), (0..(size - 1)) \ {size - 1, size - 2})
    IN  Interleave(topAvail, botAvail)

FillOrder(size) ==
    LET half == size \div 2
        topAvail == SeqFilter(Ascending(0, half - 1), (0..(size - 1)) \ {0, 1})
        botAvail == SeqFilter(Ascending(half, size - 1), (0..(size - 1)) \ {size - 1, size - 2})
    IN  Interleave(topAvail, botAvail) \o <<1, size - 2>>

\* a fill that takes the order from its end, the slots next to the seeds first
RECURSIVE FillSlotsSeedSideFirst(_, _, _, _, _)
FillSlotsSeedSideFirst(slots, order, oi, shuffled, k) ==
    LET at == order[Len(order) + 1 - oi]
    IN  IF k >= Len(shuffled) THEN slots
        ELSE IF oi > Len(order) THEN slots
        ELSE IF slots[at] # NULL THEN FillSlotsSeedSideFirst(slots, order, oi + 1, shuffled, k)
        ELSE FillSlotsSeedSideFirst([slots EXCEPT ![at] = shuffled[k + 1]], order, oi + 1,
                                    shuffled, k + 1)

\* for (const name of shuffled) { while (slot taken) oi++; if (oi >= len) break; ... }
RECURSIVE FillSlots(_, _, _, _, _)
FillSlots(slots, order, oi, shuffled, k) ==
    IF k >= Len(shuffled) THEN slots
    ELSE IF oi > Len(order) THEN slots
    ELSE IF slots[order[oi]] # NULL THEN FillSlots(slots, order, oi + 1, shuffled, k)
    ELSE FillSlots([slots EXCEPT ![order[oi]] = shuffled[k + 1]], order, oi + 1, shuffled, k + 1)

\* the slot array with the second seed put next to the first
Round1SlotsSeedsAdjacent(teams, seedTopName, seedBottomName, shuffled) ==
    LET size == nextPow2(Len(teams))
        empty == [i \in 0..(size - 1) |-> NULL]
        seeded == [[empty EXCEPT ![0] = seedTopName] EXCEPT ![1] = seedBottomName]
    IN  FillSlots(seeded, FillOrder(size), 1, shuffled, 0)

\* the slot array of generateRound1Matches for one outcome of the shuffle
Round1Slots(teams, seedTopName, seedBottomName, shuffled) ==
    LET size == nextPow2(Len(teams))
        empty == [i \in 0..(size - 1) |-> NULL]
        seeded == [[empty EXCEPT ![0] = seedTopName] EXCEPT ![size - 1] = seedBottomName]
    IN  FillSlots(seeded, FillOrder(size), 1, shuffled, 0)

\* one pair of sides turned into a match record (shared shape of the three
\* generators): no match for an empty pair, BYE with the winner set for a
\* single side, Scheduled otherwise
\* a pair whose BYE side is not advanced
PairMatchNoAutoWin(id, round, aId, bId) ==
    LET bye == aId = NULL \/ bId = NULL
    IN  [id |-> id, round |-> round, aId |-> aId, bId |-> bId,
         status |-> IF bye THEN "BYE" ELSE "Scheduled",
         winnerId |-> NULL]

PairMatch(id, round, aId, bId) ==
    LET bye == aId = NULL \/ bId = NULL
    IN  [id |-> id, round |-> round, aId |-> aId, bId |-> bId,
         status |-> IF bye THEN "BYE" ELSE "Scheduled",
         winnerId |-> IF bye THEN (IF aId # NULL THEN aId ELSE bId) ELSE NULL]

\* the pairing loop without the skip of empty pairs
RECURSIVE Round1PairsKeepEmpty(_, _, _, _, _)
Round1PairsKeepEmpty(slots, size, teams, i, id) ==
    IF i >= size THEN <<>>
    ELSE LET aId == IF slots[i] # NULL THEN NameToId(teams, slots[i]) ELSE NULL
             bId == IF slots[i + 1] # NULL THEN NameToId(teams, slots[i + 1]) ELSE NULL
         IN  <<PairMatch(id, 1, aId, bId)>> \o Round1PairsKeepEmpty(slots, size, teams, i + 2, id + 1)

RECURSIVE Round1Pairs(_, _, _, _, _)
Round1Pairs(slots, size, teams, i, id) ==
    IF i >= size THEN <<>>
    ELSE LET aId == IF slots[i] # NULL THEN NameToId(teams, slots[i]) ELSE NULL
             bId == IF slots[i + 1] # NULL THEN NameToId(teams, slots[i + 1]) ELSE NULL
         IN  IF aId = NULL /\ bId = NULL
             THEN Round1Pairs(slots, size, teams, i + 2, id)
             ELSE <<PairMatch(id, 1, aId, bId)>> \o Round1Pairs(slots, size, teams, i + 2, id + 1)

generateRound1Matches(teams, seedTopName, seedBottomName, shuffled, firstId) ==
    Round1Pairs(Round1Slots(teams, seedTopName, seedBottomName, shuffled),
                nextPow2(Len(teams)), teams, 0, firstId)

\* the names other than the seeds, in entry order, and their possible shuffles
Others(teams, seedTopName, seedBottomName) ==
    SeqFilter([i \in DOMAIN teams |-> teams[i].name],
              {teams[i].name : i \in DOMAIN teams} \ {seedTopName, seedBottomName})

ShuffledOthers(teams, seedTopName, seedBottomName, draws) ==
    LET others == Others(teams, seedTopName, seedBottomName)
        perms == Shuffles(ZeroBased(others), Len(others) - 1, draws)
    IN  {[i \in 1..Len(others) |-> p[i - 1]] : p \in perms}

\* ------------------------------------------------------ round helpers
MaxOf(S) == IF S = {} THEN 0 ELSE LET x == CHOOSE y \in S : \A z \in S : z <= y IN x

maxRound(tn) == MaxOf({tn.matches[i].round : i \in DOMAIN tn.matches})

MatchesWhere(ms, Keep(_)) ==
    LET RECURSIVE F(_)
        F(s) == IF s = <<>> THEN <<>>
                ELSE IF Keep(Head(s)) THEN <<Head(s)>> \o F(Tail(s)) ELSE F(Tail(s))
    IN  F(ms)

currentRoundMatches(tn) ==
    LET mr == maxRound(tn) IN MatchesWhere(tn.matches, LAMBDA m : m.round = mr)

Playable(m) == m.aId # NULL \/ m.bId # NULL

\* the guard with some() in place of every()
canGenerateNextSome(tn) ==
    LET cur == currentRoundMatches(tn)
        valid == MatchesWhere(cur, Playable)
    IN  /\ Len(cur) > 0
        /\ Len(valid) > 0
        /\ \E i \in DOMAIN valid : valid[i].winnerId # NULL

canGenerateNext(tn) ==
    LET cur == currentRoundMatches(tn)
        valid == MatchesWhere(cur, Playable)
    IN  /\ Len(cur) > 0
        /\ Len(valid) > 0
        /\ \A i \in DOMAIN valid : valid[i].winnerId # NULL


\* cur.map(m => m.winnerId).filter(Boolean)
RECURSIVE WinnersOf(_)
WinnersOf(ms) ==
    IF ms = <<>> THEN <<>>
    ELSE IF Head(ms).winnerId # NULL THEN <<Head(ms).winnerId>> \o WinnersOf(Tail(ms))
    ELSE WinnersOf(Tail(ms))

\* winners of the current round, in match order
currentWinners(tn) == WinnersOf(MatchesWhere(currentRoundMatches(tn), Playable))

\* ------------------------------------------------------------ pickWinner
\* the update without the m.id === matchId test
pickMatchAny(m, matchId, winnerId) ==
    [m EXCEPT !.winnerId = winnerId,
              !.status = IF winnerId # NULL THEN "Final" ELSE m.status]

pickMatch(m, matchId, winnerId) ==
    IF m.id = matchId
    THEN [m EXCEPT !.winnerId = winnerId,
                   !.status = IF winnerId # NULL THEN "Final" ELSE m.status]
    ELSE m

pickWinnerIn(tn, matchId, winnerId) ==
    [tn EXCEPT !.matches = [i \in DOMAIN tn.matches |-> pickMatch(tn.matches[i], matchId, winnerId)]]

\* ------------------------------------------------------ generateNextRound
\* for (let i = 0; i < winners.length; i += 2): i is 0-based
\* the pairing loop with the second side taken from the same index as the first
RECURSIVE NextPairsSameIndex(_, _, _, _)
NextPairsSameIndex(winners, i, round, id) ==
    IF i >= Len(winners) THEN <<>>
    ELSE LET aId == winners[i + 1]
             bId == IF i + 2 <= Len(winners) THEN winners[i + 1] ELSE NULL
         IN  <<PairMatch(id, round, aId, bId)>> \o NextPairsSameIndex(winners, i + 2, round, id + 1)

RECURSIVE NextPairs(_, _, _, _)
NextPairs(winners, i, round, id) ==
    IF i >= Len(winners) THEN <<>>
    ELSE LET aId == winners[i + 1]
             bId == IF i + 2 <= Len(winners) THEN winners[i + 2] ELSE NULL
         IN  IF aId = NULL /\ bId = NULL
             THEN NextPairs(winners, i + 2, round, id)
             ELSE <<PairMatch(id, round, aId, bId)>> \o NextPairs(winners, i + 2, round, id + 1)

\* the advance with winners.length < 1 as the completion test
generateNextRoundInNoFinal(tn, firstId) ==
    IF ~canGenerateNext(tn) THEN tn
    ELSE LET winners == currentWinners(tn)
         IN  IF Len(winners) < 1
             THEN [tn EXCEPT !.status = "completed", !.championId = NULL]
             ELSE [tn EXCEPT !.matches = @ \o NextPairs(winners, 0, maxRound(tn) + 1, firstId)]

generateNextRoundIn(tn, firstId) ==
    IF ~canGenerateNext(tn) THEN tn
    ELSE LET winners == currentWinners(tn)
         IN  IF Len(winners) <= 1
             THEN [tn EXCEPT !.status = "completed",
                             !.championId = IF Len(winners) >= 1 THEN winners[1] ELSE NULL]
             ELSE [tn EXCEPT !.matches = @ \o NextPairs(winners, 0, maxRound(tn) + 1, firstId)]

\* prev.map(tn => tn.id !== tournamentId ? tn : f(tn))
MapTournament(list, tournamentId, f(_)) ==
    [i \in DOMAIN list |-> IF list[i].id # tournamentId THEN list[i] ELSE f(list[i])]

\* ------------------------------------------------------- createTournament
Lower(name) == name % 100

\* findDuplicateNamesCaseInsensitive: the lower-cased names seen more than once
findDuplicateNamesCaseInsensitive(names) ==
    {Lower(names[i]) : i \in {k \in DOMAIN names :
        names[k] # 0 /\ \E j \in 1..(k - 1) : names[j] # 0 /\ Lower(names[j]) = Lower(names[k])}}

\* builderTeams as loadTeamsFromText builds them: one fresh id per entry
BuilderTeams(names, firstId) == [i \in DOMAIN names |-> [id |-> firstId + i - 1, name |-> names[i]]]

createTournamentOk(names, seed1, seed2) ==
    /\ findDuplicateNamesCaseInsensitive(names) = {}
    /\ Len(names) >= 2
    /\ seed1 # 0 /\ seed2 # 0 /\ seed1 # seed2
    /\ seed1 \in Range(names) /\ seed2 \in Range(names)

NewTournament(names, seed1, seed2, shuffled, firstId) ==
    LET builderTeams == BuilderTeams(names, firstId)
        matches == generateRound1Matches(builderTeams, seed1, seed2, shuffled, firstId + Len(names))
    IN  [id |-> firstId + Len(names) + Len(matches),
         teams |-> builderTeams,
         matches |-> matches,
         status |-> "active",
         seedTopId |-> NameToId(builderTeams, seed1),
         seedBottomId |-> NameToId(builderTeams, seed2),
         championId |-> NULL]

\* ----------------------------------------------------------------- state
\* NEW_TOURNEY_SENTINEL
NEW_TOURNEY_SENTINEL == 0

\* the builder after construction and after a tournament is created: no name,
\* no text, no seeds, no entries, the new-tournament target
ClearedBuilder ==
    [tName |-> 0, namesText |-> <<>>, seed1 |-> 0, seed2 |-> 0, builderTeams |-> <<>>,
     targetTournamentId |-> NEW_TOURNEY_SENTINEL]

\* the remote document and the requests in flight, before any request
Offline ==
    [remote |-> [tournaments |-> <<>>, deleted |-> <<>>], pending |-> <<>>,
     rejected |-> <<>>, alert |-> "none"]

Call(op, tid, mid, wid, slots) == [op |-> op, tid |-> tid, mid |-> mid, wid |-> wid, slots |-> slots]

Init ==
    /\ isAdmin = TRUE
    /\ tournaments = <<>>
    /\ deletedTournaments = <<>>
    /\ deleteTargetId = NULL
    /\ uidCtr = 1
    /\ calls = 0
    /\ last = Call("init", NULL, NULL, NULL, <<>>)
    /\ layout = [teamCount |-> 0, pos |-> <<>>, rounds |-> <<>>]
    /\ builder = ClearedBuilder
    /\ net = Offline

TournamentIds == {tournaments[i].id : i \in DOMAIN tournaments}

TournamentById(tid) == tournaments[CHOOSE i \in DOMAIN tournaments : tournaments[i].id = tid]

MatchIds(tn) == {tn.matches[i].id : i \in DOMAIN tn.matches}

TeamIds(tn) == {tn.teams[i].id : i \in DOMAIN tn.teams}

\* entry lists offered to the builder: the names 1..n in order
EntryList(n) == [i \in 1..n |-> i]

createTournament(names, seed1, seed2, draws, maxTournaments) ==
    /\ isAdmin
    /\ Len(tournaments) + Len(deletedTournaments) < maxTournaments
    /\ createTournamentOk(names, seed1, seed2)
    /\ \E shuffled \in ShuffledOthers(BuilderTeams(names, uidCtr), seed1, seed2, draws) :
         LET tourney == NewTournament(names, seed1, seed2, shuffled, uidCtr)
         IN  /\ tournaments' = <<tourney>> \o tournaments
             /\ uidCtr' = tourney.id + 1
             /\ calls' = calls + 1
             /\ last' = Call("createTournament", tourney.id, NULL, NULL,
                             Round1Slots(tourney.teams, seed1, seed2, shuffled))
    /\ builder' = ClearedBuilder
    /\ UNCHANGED <<net, isAdmin, deletedTournaments, deleteTargetId, layout>>

pickWinner(tournamentId, matchId, winnerId) ==
    /\ isAdmin
    /\ tournaments' = MapTournament(tournaments, tournamentId,
                                    LAMBDA tn : pickWinnerIn(tn, matchId, winnerId))
    /\ calls' = calls + 1
    /\ last' = Call("pickWinner", tournamentId, matchId, winnerId, <<>>)
    /\ UNCHANGED <<builder, net, isAdmin, deletedTournaments, deleteTargetId, uidCtr, layout>>

generateNextRound(tournamentId) ==
    /\ isAdmin
    /\ tournaments' = MapTournament(tournaments, tournamentId,
                                    LAMBDA tn : generateNextRoundIn(tn, uidCtr))
    /\ uidCtr' = uidCtr + (Len(generateNextRoundIn(TournamentById(tournamentId), uidCtr).matches)
                           - Len(TournamentById(tournamentId).matches))
    /\ calls' = calls + 1
    /\ last' = Call("generateNextRound", tournamentId, NULL, NULL, <<>>)
    /\ UNCHANGED <<builder, net, isAdmin, deletedTournaments, deleteTargetId, layout>>


\* ------------------------------------------------ applyEntriesToTournament
\* String.prototype.trim: the name 200 + n is the name n with white space
\* around it, and 200 is made of white space only
TrimName(name) == name % 200

\* a uniqueNames that tells the spellings of a name apart
RECURSIVE UniqueFromCaseSensitive(_, _)
UniqueFromCaseSensitive(arr, seen) ==
    LET n == TrimName(Head(arr))
    IN  IF arr = <<>> THEN <<>>
        ELSE IF n = 0 \/ n \in seen THEN UniqueFromCaseSensitive(Tail(arr), seen)
        ELSE <<n>> \o UniqueFromCaseSensitive(Tail(arr), seen \cup {n})

\* uniqueNames: trimmed non-blank names, first spelling of each lower-cased name
RECURSIVE UniqueFrom(_, _)
UniqueFrom(arr, seen) ==
    LET n == TrimName(Head(arr))
    IN  IF arr = <<>> THEN <<>>
        ELSE IF n = 0 \/ Lower(n) \in seen THEN UniqueFrom(Tail(arr), seen)
        ELSE <<n>> \o UniqueFrom(Tail(arr), seen \cup {Lower(n)})

uniqueNames(arr) == UniqueFrom(arr, {})

\* byeSlots: the empty sides of the round-1 matches, a before b, in match order
RECURSIVE ByeSlots(_)
ByeSlots(r1) ==
    IF r1 = <<>> THEN <<>>
    ELSE (IF Head(r1).aId = NULL THEN <<[mid |-> Head(r1).id, side |-> "a"]>> ELSE <<>>)
         \o (IF Head(r1).bId = NULL THEN <<[mid |-> Head(r1).id, side |-> "b"]>> ELSE <<>>)
         \o ByeSlots(Tail(r1))

FillSide(m, side, id) ==
    LET put == IF side = "a" THEN [m EXCEPT !.aId = id] ELSE [m EXCEPT !.bId = id]
    IN  IF put.aId # NULL /\ put.bId # NULL
        THEN [put EXCEPT !.status = "Scheduled", !.winnerId = NULL]
        ELSE put

\* for (const slot of byeSlots) { if (queue empty) break; name = queue.shift(); ... }
\* returns the matches and the names left in the queue
RECURSIVE FillByes(_, _, _, _)
FillByes(matches, byeSlots, nameQueue, allTeams) ==
    IF byeSlots = <<>> \/ nameQueue = <<>> THEN <<matches, nameQueue>>
    ELSE LET slot == Head(byeSlots)
             id == NameToId(allTeams, Head(nameQueue))
             mi == FindIndex([i \in DOMAIN matches |-> matches[i].id], {slot.mid})
             filled == IF mi >= 1
                       THEN [matches EXCEPT ![mi] = FillSide(matches[mi], slot.side, id)]
                       ELSE matches
         IN  FillByes(filled, Tail(byeSlots), Tail(nameQueue), allTeams)

\* while (queue non-empty) { a = shift(); b = shift() || null; push(match) }
RECURSIVE NewR1Matches(_, _, _)
NewR1Matches(nameQueue, allTeams, id) ==
    IF nameQueue = <<>> THEN <<>>
    ELSE LET aId == NameToId(allTeams, nameQueue[1])
             bId == IF Len(nameQueue) >= 2 THEN NameToId(allTeams, nameQueue[2]) ELSE NULL
             rest == IF Len(nameQueue) >= 2 THEN Tail(Tail(nameQueue)) ELSE <<>>
         IN  <<PairMatch(id, 1, aId, bId)>> \o NewR1Matches(rest, allTeams, id + 1)

\* between.splice(pos, 0, nm), pos 0-based
Splice(between, pos, nm) ==
    SubSeq(between, 1, pos) \o <<nm>> \o SubSeq(between, pos + 1, Len(between))

\* newR1Matches.forEach((nm, idx) => even idx: near the top, odd idx: near the bottom)
RECURSIVE Alternate(_, _, _, _, _)
Alternate(between, newR1, idx, frontInserts, backInserts) ==
    IF idx >= Len(newR1) THEN between
    ELSE IF idx % 2 = 0
         THEN Alternate(Splice(between, frontInserts, newR1[idx + 1]), newR1, idx + 1,
                        frontInserts + 1, backInserts)
         ELSE Alternate(Splice(between, Len(between) - backInserts, newR1[idx + 1]), newR1, idx + 1,
                        frontInserts, backInserts + 1)

ReorderRound1(tn, existingR1, newR1Matches, nonR1) ==
    LET topIdx == FindIndex(existingR1, {m \in Range(existingR1) :
                                m.aId = tn.seedTopId \/ m.bId = tn.seedTopId})
        bottomIdx == FindIndex(existingR1, {m \in Range(existingR1) :
                                m.aId = tn.seedBottomId \/ m.bId = tn.seedBottomId})
    IN  IF tn.seedTopId # NULL /\ tn.seedBottomId # NULL /\ topIdx # 0 /\ bottomIdx # 0
        THEN LET middleIdx == SeqFilter(Ascending(1, Len(existingR1)),
                                        (1..Len(existingR1)) \ {topIdx, bottomIdx})
                 middleExisting == [k \in DOMAIN middleIdx |-> existingR1[middleIdx[k]]]
                 between == Alternate(middleExisting, newR1Matches, 0, 0, 0)
             IN  <<existingR1[topIdx]>> \o between \o <<existingR1[bottomIdx]>> \o nonR1
        ELSE existingR1 \o newR1Matches \o nonR1

\* the names that applyEntriesToTournament adds to tn
toAddNames(tn, newNames) ==
    LET existingNamesSet == {Lower(tn.teams[i].name) : i \in DOMAIN tn.teams}
        uniq == uniqueNames(newNames)
    IN  SeqFilter(uniq, {n \in Range(uniq) : Lower(n) \notin existingNamesSet})

applyEntriesIn(tn, newNames, firstId) ==
    LET toAdd == toAddNames(tn, newNames)
    IN  IF maxRound(tn) > 1 THEN tn
        ELSE IF toAdd = <<>> THEN tn
        ELSE LET newTeams == BuilderTeams(toAdd, firstId)
                 allTeams == tn.teams \o newTeams
                 r1_before == MatchesWhere(tn.matches, LAMBDA m : m.round = 1)
                 fill == FillByes(tn.matches, ByeSlots(r1_before), toAdd, allTeams)
                 matches == fill[1]
                 newR1Matches == NewR1Matches(fill[2], allTeams, firstId + Len(toAdd))
                 nonR1 == MatchesWhere(matches, LAMBDA m : m.round # 1)
                 existingR1 == MatchesWhere(matches, LAMBDA m : m.round = 1)
             IN  [tn EXCEPT !.teams = allTeams,
                            !.matches = ReorderRound1(tn, existingR1, newR1Matches, nonR1)]

\* the uid() calls of one applyEntriesToTournament: new teams, then new matches
applyEntriesUids(tn, newNames) ==
    LET toAdd == toAddNames(tn, newNames)
    IN  IF maxRound(tn) > 1 \/ toAdd = <<>> THEN 0
        ELSE LET r1_before == MatchesWhere(tn.matches, LAMBDA m : m.round = 1)
                 left == FillByes(tn.matches, ByeSlots(r1_before), toAdd, tn.teams)[2]
             IN  Len(toAdd) + ((Len(left) + 1) \div 2)

applyEntriesToTournament(tournamentId, newNames) ==
    /\ isAdmin
    /\ tournaments' = MapTournament(tournaments, tournamentId,
                                    LAMBDA tn : applyEntriesIn(tn, newNames, uidCtr))
    /\ uidCtr' = uidCtr + applyEntriesUids(TournamentById(tournamentId), newNames)
    /\ calls' = calls + 1
    /\ last' = Call("applyEntriesToTournament", tournamentId, NULL, NULL, <<>>)
    /\ UNCHANGED <<builder, net, isAdmin, deletedTournaments, deleteTargetId, layout>>

\* ------------------------------------------------------ delete and restore
ADMIN_PASSWORD == "gameport123"

openDeleteModal(tournamentId) ==
    /\ isAdmin
    /\ deleteTargetId' = tournamentId
    /\ calls' = calls + 1
    /\ last' = Call("openDeleteModal", tournamentId, NULL, NULL, <<>>)
    /\ UNCHANGED <<builder, net, isAdmin, tournaments, deletedTournaments, uidCtr, layout>>

Without(list, idx) == SubSeq(list, 1, idx - 1) \o SubSeq(list, idx + 1, Len(list))

\* deletedAt is Date.now(); the time of day is not modelled
Archived(t) ==
    [id |-> t.id, teams |-> t.teams, matches |-> t.matches, status |-> t.status,
     seedTopId |-> t.seedTopId, seedBottomId |-> t.seedBottomId, championId |-> t.championId,
     deletedAt |-> "now"]

Restored(t) ==
    [id |-> t.id, teams |-> t.teams, matches |-> t.matches, status |-> t.status,
     seedTopId |-> t.seedTopId, seedBottomId |-> t.seedBottomId, championId |-> t.championId]

\* the two updaters of confirmDelete: the target leaves the active list and
\* its archived copy goes to the head of the archive
archiveIn(active, deleted, targetId) ==
    LET idx == FindIndex([i \in DOMAIN active |-> active[i].id], {targetId})
    IN  IF idx = 0
        THEN [tournaments |-> active, deleted |-> deleted]
        ELSE [tournaments |-> Without(active, idx),
              deleted |-> <<Archived(active[idx])>> \o deleted]

confirmDelete(deletePw, ok) ==
    /\ isAdmin
    /\ deletePw = ADMIN_PASSWORD
    /\ ok
    /\ LET after == archiveIn(tournaments, deletedTournaments, deleteTargetId)
       IN  /\ tournaments' = after.tournaments
           /\ deletedTournaments' = after.deleted
    /\ deleteTargetId' = NULL
    /\ calls' = calls + 1
    /\ last' = Call("confirmDelete", deleteTargetId, NULL, NULL, <<>>)
    /\ UNCHANGED <<builder, net, isAdmin, uidCtr, layout>>

\* a restore that leaves the archived copy in the archive
restoreInKeepsArchived(active, deleted, tournamentId) ==
    LET idx == FindIndex([i \in DOMAIN deleted |-> deleted[i].id], {tournamentId})
    IN  IF idx = 0
        THEN [tournaments |-> active, deleted |-> deleted]
        ELSE [tournaments |-> <<Restored(deleted[idx])>> \o active, deleted |-> deleted]

\* the two updaters of restoreTournament: the first archived copy with the id
\* leaves the archive and goes, without deletedAt, to the head of the active list
restoreIn(active, deleted, tournamentId) ==
    LET idx == FindIndex([i \in DOMAIN deleted |-> deleted[i].id], {tournamentId})
    IN  IF idx = 0
        THEN [tournaments |-> active, deleted |-> deleted]
        ELSE [tournaments |-> <<Restored(deleted[idx])>> \o active,
              deleted |-> Without(deleted, idx)]

restoreTournament(tournamentId) ==
    /\ isAdmin
    /\ LET after == restoreIn(tournaments, deletedTournaments, tournamentId)
       IN  /\ tournaments' = after.tournaments
           /\ deletedTournaments' = after.deleted
    /\ calls' = calls + 1
    /\ last' = Call("restoreTournament", tournamentId, NULL, NULL, <<>>)
    /\ UNCHANGED <<builder, net, isAdmin, deleteTargetId, uidCtr, layout>>

\* --------------------------------------------- exportTournamentToPDF layout
RECURSIVE Pow2(_)
Pow2(k) == IF k <= 0 THEN 1 ELSE 2 * Pow2(k - 1)

boxH0 == 34
vGap0 == 16

\* the number of matches of each projected round: buildProjectedRounds pads
\* round r to slots / 2^r matches
ProjectedCounts(teamCount) ==
    LET slots == nextPow2(teamCount)
    IN  [r \in 1..Log2(slots) |-> slots \div Pow2(r)]

\* rIdx is the 0-based round index of the source
roundHeights(rIdx) == boxH0 + rIdx * 4

roundVGaps(rIdx) == vGap0 * Pow2(rIdx)

\* the step from one box of round rIdx > 0 to the next
myBlockH(rIdx) == (roundHeights(rIdx - 1) + roundVGaps(rIdx - 1)) * 2 - roundVGaps(rIdx - 1)

\* pos[rIdx][i] in the virtual coordinates before scale-to-fit; the scale and
\* the origin are the same for every box.  (myBlockH - thisBoxH) is even.
BoxY(rIdx, i) ==
    IF rIdx = 0 THEN i * (roundHeights(0) + roundVGaps(0))
    ELSE ((myBlockH(rIdx) - roundHeights(rIdx)) \div 2) + i * myBlockH(rIdx)

Pos(counts) ==
    [r \in DOMAIN counts |->
        [i \in 0..(counts[r] - 1) |-> [y |-> BoxY(r - 1, i), h |-> roundHeights(r - 1)]]]

exportTournamentToPDF ==
    /\ layout.teamCount >= 2
    /\ layout.pos = <<>>
    /\ layout' = [layout EXCEPT !.pos = Pos(ProjectedCounts(layout.teamCount))]
    /\ UNCHANGED <<builder, net, isAdmin, tournaments, deletedTournaments, deleteTargetId, uidCtr, calls, last>>

\* ------------------------------------------------- buildProjectedRounds
\* arr.slice(0, n)
SliceTo(s, n) == SubSeq(s, 1, IF n < Len(s) THEN n ELSE Len(s))

\* byRound.get(r): the matches of round r in list order
RoundMatches(tn, r) == MatchesWhere(tn.matches, LAMBDA m : m.round = r)

\* the placeholder of every round with the status of round 1
PlaceholderAllScheduled(r, i) ==
    [id |-> 0 - (100 * r + i), round |-> r, aId |-> NULL, bId |-> NULL,
     status |-> "Scheduled", winnerId |-> NULL]

\* the id `__placeholder_r_i__` is the negative number -(100 r + i): no uid
\* is negative
Placeholder(r, i) ==
    [id |-> 0 - (100 * r + i), round |-> r, aId |-> NULL, bId |-> NULL,
     status |-> IF r = 1 THEN "Scheduled" ELSE "Pending", winnerId |-> NULL]

\* the projection without the padding of a round to its expected length
buildProjectedRoundsNoPad(tn) ==
    LET teamCount == Len(tn.teams)
        slots == nextPow2(teamCount)
    IN  IF teamCount < 2
        THEN IF RoundMatches(tn, 1) # <<>>
             THEN <<[round |-> 1, matches |-> RoundMatches(tn, 1)]>>
             ELSE <<>>
        ELSE [r \in 1..Log2(slots) |->
                [round |-> r,
                 matches |-> SliceTo(RoundMatches(tn, r), slots \div Pow2(r))]]

buildProjectedRounds(tn) ==
    LET teamCount == Len(tn.teams)
        slots == nextPow2(teamCount)
    IN  IF teamCount < 2
        THEN IF RoundMatches(tn, 1) # <<>>
             THEN <<[round |-> 1, matches |-> RoundMatches(tn, 1)]>>
             ELSE <<>>
        ELSE [r \in 1..Log2(slots) |->
                LET expected == slots \div Pow2(r)
                    existing == SliceTo(RoundMatches(tn, r), expected)
                IN  [round |-> r,
                     matches |-> [i \in 1..expected |->
                                     IF i <= Len(existing) THEN existing[i]
                                     ELSE Placeholder(r, i - 1)]]]

\* the export of a stored tournament: the projected rounds, then the box
\* positions from the number of matches of each round
exportTournament(tournamentId) ==
    /\ tournamentId \in TournamentIds
    /\ LET tn == TournamentById(tournamentId)
           rounds == buildProjectedRounds(tn)
       IN  /\ layout' = [teamCount |-> Len(tn.teams),
                         rounds |-> rounds,
                         pos |-> Pos([r \in DOMAIN rounds |-> Len(rounds[r].matches)])]
           /\ last' = Call("exportTournamentToPDF", tournamentId, NULL, NULL, <<>>)
    /\ UNCHANGED <<builder, net, isAdmin, tournaments, deletedTournaments, deleteTargetId, uidCtr, calls>>

\* ---------------------------------------------------------------------
\* exportTournamentToPDF drawn on a canvas and tiled over pages

MaxTileTeams == 32

margin == 28
headerH == 60
colWidth == 320
boxW == 250
boxH == 84
elbowGapX == 24
champBlockW == 200
pad == 18
\* the A4 landscape page of the PDF library in hundredths of a point
pageW100 == 84189
pageH100 == 59528

MinOf(S) == CHOOSE y \in S : \A z \in S : y <= z

\* Math.round(Math.log2(n)): the k with 2^(k - 1/2) <= n < 2^(k + 1/2)
RoundLog2(n) == CHOOSE k \in 0..12 : Pow2(2 * k) <= 2 * n * n /\ 2 * n * n < Pow2(2 * k + 2)

\* n >> k
ShiftRight(n, k) == n \div Pow2(k)

\* the number of matches of each round of allRounds, by 0-based round index:
\* the real matches of a round that has some, else the virtual ones
allRounds(tn) ==
    LET round1Count == MaxOf({1, Len(RoundMatches(tn, MinOf({tn.matches[k].round : k \in DOMAIN tn.matches})))})
        totalRounds == MaxOf({1, RoundLog2(MaxOf({2, round1Count * 2}))})
    IN  [ri \in 0..(totalRounds - 1) |->
            IF RoundMatches(tn, ri + 1) # <<>>
            THEN Len(RoundMatches(tn, ri + 1))
            ELSE MaxOf({1, ShiftRight(round1Count, ri)})]

slot0 == MaxOf({130, boxH + 44})

roundX(ri) == margin + ri * colWidth

roundSlot(ri) == slot0 * Pow2(ri)

roundY(ri, mi) == margin + headerH + mi * roundSlot(ri) + (roundSlot(ri) - boxH) \div 2

Boxes(counts) == UNION {{<<ri, mi>> : mi \in 0..(counts[ri] - 1)} : ri \in DOMAIN counts}

LastRi(counts) == MaxOf(DOMAIN counts)

childMidY(b) == roundY(b[1], b[2]) + boxH \div 2

parentY(b) == roundY(b[1] + 1, b[2] \div 2) + boxH \div 2

canvasW(counts) ==
    LET R == LastRi(counts) + 1
        neededMaxX == MaxOf({margin + colWidth * R}
                        \cup {roundX(b[1]) + 8 + boxW : b \in Boxes(counts)}
                        \cup {roundX(b[1]) + 8 + boxW + elbowGapX + (colWidth - 10) :
                                 b \in {c \in Boxes(counts) : c[1] < LastRi(counts)}})
    IN  neededMaxX + champBlockW + 40 + margin

canvasH(counts) ==
    LET neededMaxY == MaxOf({margin + headerH + boxH}
                        \cup {roundY(b[1], b[2]) + boxH : b \in Boxes(counts)}
                        \cup {childMidY(b) : b \in {c \in Boxes(counts) : c[1] < LastRi(counts)}}
                        \cup {parentY(b) : b \in {c \in Boxes(counts) : c[1] < LastRi(counts)}})
    IN  neededMaxY + margin + 18

\* the bands of the cards and of the connectors
noCutRects(counts) ==
    {[top |-> roundY(b[1], b[2]) - 2, bottom |-> roundY(b[1], b[2]) + boxH + 2] : b \in Boxes(counts)}
    \cup {[top |-> MinOf({childMidY(b), parentY(b)}) - 2,
           bottom |-> MaxOf({childMidY(b), parentY(b)}) + 2] :
             b \in {c \in Boxes(counts) : c[1] < LastRi(counts)}}

\* floor(maxH / min(1, maxW / canvas.width))
tileSourceHeight(width) ==
    LET maxW100 == pageW100 - 2 * pad * 100
        maxH100 == pageH100 - 2 * pad * 100
    IN  IF 100 * width <= maxW100 THEN maxH100 \div 100 ELSE (maxH100 * width) \div maxW100

\* ten times min(tileSourceHeight * 0.6, 600)
minChunk10(tile) == MinOf({6 * tile, 6000})

cutsThroughCard(counts, y) == \E r \in noCutRects(counts) : y > r.top /\ y < r.bottom

\* the start of the export: the canvas is drawn and the tiler is at the top
exportToCanvas(tournamentId) ==
    /\ tournamentId \in TournamentIds
    /\ LET counts == allRounds(TournamentById(tournamentId))
       IN  layout' = [counts |-> counts, height |-> canvasH(counts),
                      tile |-> tileSourceHeight(canvasW(counts)),
                      sy |-> 0, desired |-> 0, cut |-> 0, pc |-> "loop", cuts |-> <<>>,
                      slices |-> <<>>]
    /\ last' = Call("exportToCanvas", tournamentId, NULL, NULL, <<>>)
    /\ UNCHANGED <<builder, net, isAdmin, tournaments, deletedTournaments, deleteTargetId, uidCtr, calls>>

Tiling == last.op = "exportToCanvas"

TileFrame == UNCHANGED <<builder, net, isAdmin, tournaments, deletedTournaments, deleteTargetId, uidCtr, calls, last>>

\* while (sy < canvas.height): the desired cut
TileLoop ==
    /\ Tiling /\ layout.pc = "loop"
    /\ IF layout.sy < layout.height
       THEN LET desired == MinOf({layout.height, layout.sy + layout.tile})
            IN  layout' = [layout EXCEPT !.desired = desired, !.cut = desired, !.pc = "down"]
       ELSE layout' = [layout EXCEPT !.pc = "done"]
    /\ TileFrame

\* the one-step search towards smaller y with the search towards larger y first
TileDownSkipped ==
    /\ Tiling /\ layout.pc = "down"
    /\ layout' = [layout EXCEPT !.cut = layout.desired,
                                !.pc = IF cutsThroughCard(layout.counts, layout.cut) THEN "up" ELSE "slice"]
    /\ TileFrame

\* while (cut > sy + minChunk && cutsThroughCard(cut)) cut -= 2; then the
\* test that starts the search towards larger y
TileDown ==
    /\ Tiling /\ layout.pc = "down"
    /\ IF /\ 10 * layout.cut > 10 * layout.sy + minChunk10(layout.tile)
          /\ cutsThroughCard(layout.counts, layout.cut)
       THEN layout' = [layout EXCEPT !.cut = @ - 2]
       ELSE IF cutsThroughCard(layout.counts, layout.cut)
            THEN layout' = [layout EXCEPT !.cut = layout.desired, !.pc = "up"]
            ELSE layout' = [layout EXCEPT !.pc = "slice"]
    /\ TileFrame

\* while (cut < min(canvas.height, sy + 1.4 tile) && cutsThroughCard(cut))
\* cut += 2; then the last resort
TileUp ==
    /\ Tiling /\ layout.pc = "up"
    /\ IF /\ layout.cut < layout.height
          /\ 10 * layout.cut < 10 * layout.sy + 14 * layout.tile
          /\ cutsThroughCard(layout.counts, layout.cut)
       THEN layout' = [layout EXCEPT !.cut = @ + 2]
       ELSE IF cutsThroughCard(layout.counts, layout.cut)
            THEN layout' = [layout EXCEPT !.cut = MinOf({layout.height, layout.sy + layout.tile}),
                                          !.pc = "slice"]
            ELSE layout' = [layout EXCEPT !.pc = "slice"]
    /\ TileFrame

\* a slice whose height is not raised to 1
TileSliceNoFloor ==
    /\ Tiling /\ layout.pc = "slice"
    /\ LET sh == MinOf({layout.cut - layout.sy, layout.height - layout.sy})
       IN  layout' = [layout EXCEPT !.sy = @ + sh, !.cuts = Append(@, layout.sy + sh),
                                    !.slices = Append(@, [sy |-> layout.sy, sh |-> sh]),
                                    !.pc = "loop"]
    /\ TileFrame

\* the slice of the page, drawImage(canvas, 0, sy, width, sh, ...), and the next sy
TileSlice ==
    /\ Tiling /\ layout.pc = "slice"
    /\ LET sh == MaxOf({1, MinOf({layout.cut - layout.sy, layout.height - layout.sy})})
       IN  layout' = [layout EXCEPT !.sy = @ + sh, !.cuts = Append(@, layout.sy + sh),
                                    !.slices = Append(@, [sy |-> layout.sy, sh |-> sh]),
                                    !.pc = "loop"]
    /\ TileFrame


\* ------------------------------------------------------------ the builder
MaxBuilderCalls == 13

\* an edit of one field of the builder form
setBuilderField(field, value) ==
    /\ builder' = [builder EXCEPT ![field] = value]
    /\ calls' = calls + 1
    /\ last' = Call("setBuilderField", NULL, NULL, NULL, <<>>)
    /\ UNCHANGED <<net, isAdmin, tournaments, deletedTournaments, deleteTargetId, uidCtr, layout>>

handleLogin ==
    /\ isAdmin' = TRUE
    /\ calls' = calls + 1
    /\ last' = Call("handleLogin", NULL, NULL, NULL, <<>>)
    /\ UNCHANGED <<builder, net, tournaments, deletedTournaments, deleteTargetId, uidCtr, layout>>

handleLogout ==
    /\ isAdmin' = FALSE
    /\ calls' = calls + 1
    /\ last' = Call("handleLogout", NULL, NULL, NULL, <<>>)
    /\ UNCHANGED <<builder, net, tournaments, deletedTournaments, deleteTargetId, uidCtr, layout>>

\* the lines of namesText become the entries, with fresh ids, unless there is
\* no line or a name twice; the seeds follow when a new tournament is built
loadTeamsFromText ==
    LET lines == builder.namesText
        loads == isAdmin /\ Len(lines) > 0 /\ findDuplicateNamesCaseInsensitive(lines) = {}
    IN  /\ IF loads
           THEN /\ builder' =
                     IF builder.targetTournamentId = NEW_TOURNEY_SENTINEL
                     THEN [builder EXCEPT !.builderTeams = BuilderTeams(lines, uidCtr),
                                          !.seed1 = lines[1],
                                          !.seed2 = IF Len(lines) >= 2 THEN lines[2] ELSE 0]
                     ELSE [builder EXCEPT !.builderTeams = BuilderTeams(lines, uidCtr)]
                /\ uidCtr' = uidCtr + Len(lines)
           ELSE UNCHANGED <<builder, uidCtr>>
        /\ calls' = calls + 1
        /\ last' = Call("loadTeamsFromText", NULL, NULL, NULL, <<>>)
        /\ UNCHANGED <<net, isAdmin, tournaments, deletedTournaments, deleteTargetId, layout>>

BuilderNames == [i \in DOMAIN builder.builderTeams |-> builder.builderTeams[i].name]

\* the preconditions of a new tournament without the test of the name
BuilderPassesAnyName ==
    /\ isAdmin
    /\ builder.targetTournamentId = NEW_TOURNEY_SENTINEL
    /\ createTournamentOk(BuilderNames, builder.seed1, builder.seed2)

\* every test of createTournament before it builds a new tournament
BuilderPasses ==
    /\ isAdmin
    /\ builder.targetTournamentId = NEW_TOURNEY_SENTINEL
    /\ findDuplicateNamesCaseInsensitive(BuilderNames) = {}
    /\ TrimName(builder.tName) # 0
    /\ createTournamentOk(BuilderNames, builder.seed1, builder.seed2)

\* the tournament built from the entries of the builder, which keep their ids
BuilderTournament(shuffled, firstId) ==
    LET matches == generateRound1Matches(builder.builderTeams, builder.seed1, builder.seed2, shuffled, firstId)
    IN  [id |-> firstId + Len(matches),
         teams |-> builder.builderTeams,
         matches |-> matches,
         status |-> "active",
         seedTopId |-> NameToId(builder.builderTeams, builder.seed1),
         seedBottomId |-> NameToId(builder.builderTeams, builder.seed2),
         championId |-> NULL]

\* the Create Tournament button: every early return leaves the state as it
\* is; with an existing tournament as the target the call of
\* applyEntriesToTournament, which this version does not define, throws
createTournamentClick(draws) ==
    /\ IF BuilderPasses
       THEN \E shuffled \in ShuffledOthers(builder.builderTeams, builder.seed1, builder.seed2, draws) :
               LET tourney == BuilderTournament(shuffled, uidCtr)
               IN  /\ tournaments' = <<tourney>> \o tournaments
                   /\ uidCtr' = tourney.id + 1
                   /\ builder' = ClearedBuilder
       ELSE UNCHANGED <<tournaments, uidCtr, builder>>
    /\ calls' = calls + 1
    /\ last' = Call("createTournamentClick", NULL, NULL, NULL, <<>>)
    /\ UNCHANGED <<net, isAdmin, deletedTournaments, deleteTargetId, layout>>

\* ------------------------------------------------------------- the store
\* a JSON value in the place of a list: an array, nothing, or something else
Arr(items) == [type |-> "array", items |-> items]

Undefined == [type |-> "undefined", items |-> <<>>]

NotArray == [type |-> "other", items |-> <<>>]

\* a stored document: an object with its two fields, or no object
Doc(tournamentsField, deletedField) ==
    [type |-> "object", tournaments |-> tournamentsField, deleted |-> deletedField]

NoRecord == [type |-> "null", tournaments |-> Undefined, deleted |-> Undefined]

\* a record that is a falsy value other than null and undefined (0, "", false)
FalsyRecord == [type |-> "falsy", tournaments |-> Undefined, deleted |-> Undefined]

\* { tournaments: [], deleted: [] }
EmptyStore == Doc(Arr(<<>>), Arr(<<>>))

Returns(value) == [kind |-> "returns", value |-> value]

Throws == [kind |-> "throws", value |-> NoRecord]

\* no load has ended
NoResult == [kind |-> "none", value |-> NoRecord]

\* an object with an error field in the place of the snapshot
ErrorBody == [type |-> "object", tournaments |-> Undefined, deleted |-> Undefined]

\* json?.record ?? empty
NullishOr(record, default) == IF record.type = "null" THEN default ELSE record

\* data?.record || empty
FalsyOr(record, default) == IF record.type \in {"null", "falsy"} THEN default ELSE record

\* src/db.js: every failure is caught and gives the empty store; a record is
\* returned as it is
dbLoadStoreOnce(fetched) ==
    IF fetched.kind \in {"networkError", "notFound", "serverError", "malformedBody"}
    THEN Returns(EmptyStore)
    ELSE Returns(NullishOr(fetched.record, EmptyStore))

\* the adapter without try/catch: a failed fetch, a status that is not OK and
\* an unreadable body throw
pagesLoadStoreOnce(fetched) ==
    IF fetched.kind \in {"networkError", "notFound", "serverError", "malformedBody"}
    THEN Throws
    ELSE Returns(FalsyOr(fetched.record, EmptyStore))

\* the GET branch of /api/tournaments: the body of the response
handlerGet(fetched) ==
    CASE fetched.kind = "networkError" -> Returns(ErrorBody)
      [] fetched.kind = "notFound" -> Returns(EmptyStore)
      [] fetched.kind = "serverError" -> Returns(ErrorBody)
      [] fetched.kind = "malformedBody" -> Returns(EmptyStore)
      [] OTHER -> Returns(fetched.record)

\* one load through one of the three implementations
loadDone(adapter, result) ==
    /\ net.adapter = adapter
    /\ net.result = NoResult
    /\ net' = [net EXCEPT !.result = result]
    /\ UNCHANGED <<builder, isAdmin, tournaments, deletedTournaments, deleteTargetId, uidCtr, calls, last, layout>>

\* ---------------------------------------------------------- specifications
\* seed pairs offered to the builder
SeedNames(names) == {<<names[1], names[2]>>, <<names[Len(names)], names[1]>>}

DeletedIds == {deletedTournaments[i].id : i \in DOMAIN deletedTournaments}

\* entries typed for an existing tournament: new names, and a list that repeats
\* an existing name in another casing, a new name twice and a blank line
NewNameLists == {Ascending(11, 10 + k) : k \in 1..MaxNewNames} \cup {<<101, 11, 111, 0>>}

Create ==
    /\ calls < MaxCalls
    /\ \E n \in 2..MaxTeams : \E seeds \in SeedNames(EntryList(n)) :
        createTournament(EntryList(n), seeds[1], seeds[2], AllDraws, MaxTournaments)

Pick ==
    /\ calls < MaxCalls
    /\ \E tid \in TournamentIds :
        \E mid \in MatchIds(TournamentById(tid)) :
            \E wid \in TeamIds(TournamentById(tid)) \cup {NULL} :
                pickWinner(tid, mid, wid)

Generate == calls < MaxCalls /\ \E tid \in TournamentIds : generateNextRound(tid)

ApplyEntries ==
    /\ calls < MaxCalls
    /\ \E tid \in TournamentIds : \E newNames \in NewNameLists :
        applyEntriesToTournament(tid, newNames)

OpenDelete == calls < MaxCalls /\ \E tid \in TournamentIds : openDeleteModal(tid)

ConfirmDelete == calls < MaxCalls /\ deleteTargetId # NULL /\ confirmDelete(ADMIN_PASSWORD, TRUE)

Restore == calls < MaxCalls /\ \E tid \in DeletedIds : restoreTournament(tid)

Next == Create \/ Pick \/ Generate \/ ApplyEntries \/ OpenDelete \/ ConfirmDelete \/ Restore

Spec == Init /\ [][Next]_vars

\* one tournament, played with any winner ids
PlayCreate ==
    /\ calls < MaxCalls
    /\ \E n \in 2..MaxPlayTeams : \E seeds \in SeedNames(EntryList(n)) :
        createTournament(EntryList(n), seeds[1], seeds[2], AllDraws, 1)

NextPlay == PlayCreate \/ Pick \/ Generate

SpecPlay == Init /\ [][NextPlay]_vars


\* one tournament of up to MaxDeepTeams entrants, played in order as the
\* fixtures list offers it: an undecided match of the current round gets one of
\* its two sides as winner
DeepDraws == [i \in 0..16 |-> IF i <= 2 THEN 0..i ELSE {i}]

ForwardCreate ==
    \E n \in 2..MaxDeepTeams : \E seeds \in SeedNames(EntryList(n)) :
        createTournament(EntryList(n), seeds[1], seeds[2], DeepDraws, 1)

ForwardPick ==
    \E tid \in TournamentIds :
        LET tn == TournamentById(tid)
        IN  \E k \in DOMAIN tn.matches :
                /\ tn.status = "active"
                /\ tn.matches[k].round = maxRound(tn)
                /\ tn.matches[k].winnerId = NULL
                /\ \E wid \in {tn.matches[k].aId, tn.matches[k].bId} \ {NULL} :
                       pickWinner(tid, tn.matches[k].id, wid)

ForwardGenerate ==
    \E tid \in TournamentIds :
        /\ canGenerateNext(TournamentById(tid))
        /\ TournamentById(tid).status = "active"
        /\ generateNextRound(tid)

NextForward == ForwardCreate \/ ForwardPick \/ ForwardGenerate

SpecForward == Init /\ [][NextForward]_vars


\* ------------------------------------------------------------------ claims
Round1Of(tn) == MatchesWhere(tn.matches, LAMBDA m : m.round = 1)

\* the sides of the round-1 matches that hold entrant id
SidesHolding(tn, id) ==
    {<<k, side>> \in (DOMAIN Round1Of(tn)) \X {"a", "b"} :
        IF side = "a" THEN Round1Of(tn)[k].aId = id ELSE Round1Of(tn)[k].bId = id}

PopulatedSides(tn) ==
    Cardinality({<<k, side>> \in (DOMAIN Round1Of(tn)) \X {"a", "b"} :
        IF side = "a" THEN Round1Of(tn)[k].aId # NULL ELSE Round1Of(tn)[k].bId # NULL})

\* slot pairs (2k, 2k+1) of a slot array in which neither slot holds an entrant
VoidPairs(slots) ==
    Cardinality({k \in 0..((Cardinality(DOMAIN slots) \div 2) - 1) :
        slots[2 * k] = NULL /\ slots[2 * k + 1] = NULL})

\* C4 as stated: round 1 of a tournament of N entrants has exactly
\* nextPow2(N)/2 matches
C4_Round1CountIsHalfSize ==
    \A i \in DOMAIN tournaments :
        2 * Len(Round1Of(tournaments[i])) = nextPow2(Len(tournaments[i].teams))

\* C4 amended: round 1 has one match for every slot pair that holds at least
\* one entrant, that is nextPow2(N)/2 minus the number of pairs left entirely
\* void; never more than nextPow2(N)/2, and exactly nextPow2(N)/2 up to N = 8
C4_Round1CountSkipsVoidPairs ==
    /\ last.op = "createTournament" =>
         Len(Round1Of(tournaments[1])) =
             (nextPow2(Len(tournaments[1].teams)) \div 2) - VoidPairs(last.slots)
    /\ \A i \in DOMAIN tournaments :
         /\ 2 * Len(Round1Of(tournaments[i])) <= nextPow2(Len(tournaments[i].teams))
         /\ Len(tournaments[i].teams) <= 8 =>
              2 * Len(Round1Of(tournaments[i])) = nextPow2(Len(tournaments[i].teams))

C4_Witness ==
    /\ last.op = "createTournament"
    /\ Len(tournaments[1].teams) = 9
    /\ Len(Round1Of(tournaments[1])) = 6
    /\ VoidPairs(last.slots) = 2

\* a match as the generators emit it
EmittedShape(m) ==
    /\ m.aId # NULL \/ m.bId # NULL
    /\ (m.aId = NULL /\ m.bId # NULL) => (m.status = "BYE" /\ m.winnerId = m.bId)
    /\ (m.aId # NULL /\ m.bId = NULL) => (m.status = "BYE" /\ m.winnerId = m.aId)
    /\ (m.aId # NULL /\ m.bId # NULL) => (m.status = "Scheduled" /\ m.winnerId = NULL)

\* C9: every match that a step adds (createTournament's round 1,
\* generateNextRound's next round) has at least one side populated, is a BYE
\* won by its only side when one side is empty, and is Scheduled without a
\* winner when both sides are populated
C9_EmittedMatches ==
    [][\A i \in DOMAIN tournaments' : \A k \in DOMAIN tournaments'[i].matches :
          tournaments'[i].matches[k].id >= uidCtr => EmittedShape(tournaments'[i].matches[k])]_vars

\* a later round holds a BYE (odd number of winners) next to a Scheduled match,
\* and round 1 holds a BYE with the empty side first
C9_Witness ==
    \E i \in DOMAIN tournaments :
        /\ \E k \in DOMAIN tournaments[i].matches :
               LET m == tournaments[i].matches[k]
               IN  m.round > 1 /\ m.status = "BYE" /\ m.bId = NULL /\ m.winnerId = m.aId
        /\ \E k \in DOMAIN tournaments[i].matches :
               LET m == tournaments[i].matches[k]
               IN  m.round > 1 /\ m.aId # NULL /\ m.bId # NULL
        /\ \E k \in DOMAIN tournaments[i].matches :
               LET m == tournaments[i].matches[k]
               IN  m.round = 1 /\ m.aId = NULL /\ m.status = "BYE" /\ m.winnerId = m.bId

\* C10: in round 1 every entrant is on exactly one side of exactly one match,
\* and the populated sides number N
C10_EveryEntrantOnce ==
    \A i \in DOMAIN tournaments :
        /\ \A id \in TeamIds(tournaments[i]) : Cardinality(SidesHolding(tournaments[i], id)) = 1
        /\ PopulatedSides(tournaments[i]) = Len(tournaments[i].teams)

C10_Witness ==
    \E i \in DOMAIN tournaments :
        /\ Len(tournaments[i].teams) = 7
        /\ Len(Round1Of(tournaments[i])) = 4
        /\ PopulatedSides(tournaments[i]) = 7


\* ---------------------------------------------- claims on the operations
\* the tournament a call was aimed at, before and after the step
Target == CHOOSE i \in DOMAIN tournaments : tournaments[i].id = last'.tid

CurrentIdx(tn) == {k \in DOMAIN tn.matches : tn.matches[k].round = maxRound(tn)}

NoPlayableNow(tn) == \A k \in CurrentIdx(tn) : tn.matches[k].aId = NULL /\ tn.matches[k].bId = NULL

SomeUndecided(tn) ==
    \E k \in CurrentIdx(tn) :
        /\ tn.matches[k].aId # NULL \/ tn.matches[k].bId # NULL
        /\ tn.matches[k].winnerId = NULL

\* C1: generateNextRound changes no tournament when the current round of its
\* target has no playable match or has a playable match without a winner
C1_AdvanceUndecidedIsNoOp ==
    [][(/\ last'.op = "generateNextRound"
        /\ last'.tid \in TournamentIds
        /\ NoPlayableNow(tournaments[Target]) \/ SomeUndecided(tournaments[Target]))
       => (tournaments' = tournaments /\ deletedTournaments' = deletedTournaments)]_vars

C1_Witness ==
    /\ last.op = "generateNextRound"
    /\ Len(tournaments) >= 2
    /\ \E i \in DOMAIN tournaments :
         /\ tournaments[i].id = last.tid
         /\ SomeUndecided(tournaments[i])
         /\ \E k \in DOMAIN tournaments[i].matches : tournaments[i].matches[k].status = "BYE"

\* every tournament in memory, active or archived
Known == Range(tournaments) \cup {Restored(deletedTournaments[i]) : i \in DOMAIN deletedTournaments}

\* C2: a completed tournament stays completed with the champion it has, through
\* every call
C2_ChampionIsFinal ==
    [][\A t \in Known : t.status = "completed" =>
          \E u \in Known' : u.id = t.id /\ u.status = "completed" /\ u.championId = t.championId]_vars

\* C3: the winner of a match is null or one of its two sides
C3_WinnerIsParticipant ==
    \A i \in DOMAIN tournaments : \A k \in DOMAIN tournaments[i].matches :
        LET m == tournaments[i].matches[k]
        IN  m.winnerId = NULL \/ m.winnerId = m.aId \/ m.winnerId = m.bId

\* the final round in which the two seeds of a bracket of N entrants may meet
FinalRound(tn) == Log2(nextPow2(Len(tn.teams)))

\* C5: no match of a round before the final holds both seeds
C5_SeedsMeetOnlyInFinal ==
    \A i \in DOMAIN tournaments : \A k \in DOMAIN tournaments[i].matches :
        LET tn == tournaments[i]
            m == tn.matches[k]
        IN  {m.aId, m.bId} = {tn.seedTopId, tn.seedBottomId} => m.round = FinalRound(tn)

\* C6: generateNextRound on a tournament whose current round is decided and
\* has a single winner completes it with that winner as champion and adds no
\* match
C6_SingleWinnerCompletes ==
    [][(/\ last'.op = "generateNextRound"
        /\ last'.tid \in TournamentIds
        /\ ~NoPlayableNow(tournaments[Target])
        /\ ~SomeUndecided(tournaments[Target])
        /\ Cardinality({k \in CurrentIdx(tournaments[Target]) :
                           tournaments[Target].matches[k].winnerId # NULL}) = 1)
       => (/\ tournaments'[Target].status = "completed"
           /\ tournaments'[Target].championId # NULL
           /\ \E k \in CurrentIdx(tournaments[Target]) :
                  tournaments[Target].matches[k].winnerId = tournaments'[Target].championId
           /\ tournaments'[Target].matches = tournaments[Target].matches)]_vars

C6_Witness ==
    /\ last.op = "generateNextRound"
    /\ \E i \in DOMAIN tournaments :
         /\ tournaments[i].id = last.tid
         /\ tournaments[i].status = "completed"
         /\ maxRound(tournaments[i]) = 2
         /\ \E k \in CurrentIdx(tournaments[i]) :
                tournaments[i].matches[k].winnerId = tournaments[i].championId

\* C8: pickWinner changes the winner (and, for a non-null winner, the status)
\* of the matches with the given id in the given tournament and nothing else
C8_PickWinnerFrame ==
    [][last'.op = "pickWinner" =>
        /\ deletedTournaments' = deletedTournaments
        /\ DOMAIN tournaments' = DOMAIN tournaments
        /\ \A i \in DOMAIN tournaments :
             LET old == tournaments[i]
                 new == tournaments'[i]
             IN  /\ old.id # last'.tid => new = old
                 /\ new.id = old.id /\ new.teams = old.teams /\ new.status = old.status
                 /\ new.championId = old.championId
                 /\ new.seedTopId = old.seedTopId /\ new.seedBottomId = old.seedBottomId
                 /\ DOMAIN new.matches = DOMAIN old.matches
                 /\ \A k \in DOMAIN old.matches :
                      /\ old.matches[k].id # last'.mid => new.matches[k] = old.matches[k]
                      /\ (old.id = last'.tid /\ old.matches[k].id = last'.mid) =>
                           /\ new.matches[k].winnerId = last'.wid
                           /\ new.matches[k].status =
                                IF last'.wid # NULL THEN "Final" ELSE old.matches[k].status
                           /\ new.matches[k].id = old.matches[k].id
                           /\ new.matches[k].round = old.matches[k].round
                           /\ new.matches[k].aId = old.matches[k].aId
                           /\ new.matches[k].bId = old.matches[k].bId]_vars

\* a round-1 winner was changed after round 2 was derived from it: round 2
\* still holds the earlier winner; another tournament is present
C8_Witness ==
    /\ last.op = "pickWinner"
    /\ last.wid # NULL
    /\ Len(tournaments) >= 2
    /\ \E i \in DOMAIN tournaments :
         /\ tournaments[i].id = last.tid
         /\ \E k \in DOMAIN tournaments[i].matches :
              /\ tournaments[i].matches[k].id = last.mid
              /\ tournaments[i].matches[k].round = 1
              /\ tournaments[i].matches[k].status = "Final"
              /\ \E j \in DOMAIN tournaments[i].matches :
                   /\ tournaments[i].matches[j].round = 2
                   /\ last.wid \notin {tournaments[i].matches[j].aId, tournaments[i].matches[j].bId}


\* --------------------------------------------------- claims on the layout
\* the export of a tournament of 2..MaxLayoutTeams entrants
InitLayout ==
    /\ isAdmin = TRUE
    /\ tournaments = <<>>
    /\ deletedTournaments = <<>>
    /\ deleteTargetId = NULL
    /\ uidCtr = 1
    /\ calls = 0
    /\ last = Call("init", NULL, NULL, NULL, <<>>)
    /\ \E n \in 2..MaxLayoutTeams : layout = [teamCount |-> n, pos |-> <<>>, rounds |-> <<>>]
    /\ builder = ClearedBuilder
    /\ net = Offline

NextLayout == exportTournamentToPDF

SpecLayout == InitLayout /\ [][NextLayout]_vars

\* twice the vertical centre y + h/2 of a box
Centre2(box) == 2 * box.y + box.h

\* C7: every box of a round after the first is centred on the midpoint of the
\* centres of its two children
C7_BoxCentredOnChildren ==
    \A r \in DOMAIN layout.pos : \A i \in DOMAIN layout.pos[r] :
        r > 1 =>
            2 * Centre2(layout.pos[r][i]) =
                Centre2(layout.pos[r - 1][2 * i]) + Centre2(layout.pos[r - 1][2 * i + 1])

\* ---------------------------------------------------------------------
\* next-round pairing

DecidedIdx(tn) == {k \in CurrentIdx(tn) : tn.matches[k].winnerId # NULL}

\* the n-th winner (from 1) of the current round, in match order
NthWinner(tn, n) ==
    LET k == CHOOSE x \in DecidedIdx(tn) : Cardinality({y \in DecidedIdx(tn) : y < x}) = n - 1
    IN  tn.matches[k].winnerId

\* C11: a generateNextRound that advances with k >= 2 winners appends
\* ceil(k/2) matches of round r+1 pairing winners 2i and 2i+1 in match order
\* (the last one a BYE of the odd winner) and keeps the existing matches
C11_NextRoundPairsInOrder ==
    [][(/\ last'.op = "generateNextRound"
        /\ last'.tid \in TournamentIds
        /\ ~NoPlayableNow(tournaments[Target])
        /\ ~SomeUndecided(tournaments[Target])
        /\ Cardinality(DecidedIdx(tournaments[Target])) >= 2)
       => LET tn == tournaments[Target]
              k == Cardinality(DecidedIdx(tn))
              old == Len(tn.matches)
              after == tournaments'[Target].matches
          IN  /\ Len(after) = old + (k + 1) \div 2
              /\ \A j \in 1..old : after[j] = tn.matches[j]
              /\ \A i \in 0..((k + 1) \div 2 - 1) :
                     LET m == after[old + i + 1]
                     IN  /\ m.round = maxRound(tn) + 1
                         /\ m.aId = NthWinner(tn, 2 * i + 1)
                         /\ IF 2 * i + 2 <= k
                            THEN m.bId = NthWinner(tn, 2 * i + 2)
                            ELSE m.bId = NULL /\ m.status = "BYE" /\ m.winnerId = m.aId]_vars

\* a third round made from three winners: a pair and the BYE of the third
C11_Witness ==
    /\ last.op = "generateNextRound"
    /\ \E i \in DOMAIN tournaments :
         LET tn == tournaments[i]
             r2 == {k \in DOMAIN tn.matches : tn.matches[k].round = 2}
             r3 == {k \in DOMAIN tn.matches : tn.matches[k].round = 3}
         IN  /\ tn.id = last.tid
             /\ maxRound(tn) = 3
             /\ Cardinality(r2) = 3
             /\ Cardinality(r3) = 2
             /\ \E k \in r3 : tn.matches[k].status = "BYE" /\ tn.matches[k].bId = NULL

\* ---------------------------------------------------------------------
\* forward play of one tournament ended by one export
NotExported == layout.rounds = <<>>

ExportCreate == NotExported /\ ForwardCreate

ExportPick == NotExported /\ ForwardPick

ExportGenerate == NotExported /\ ForwardGenerate

Export == NotExported /\ \E tid \in TournamentIds : exportTournament(tid)

NextExport == ExportCreate \/ ExportPick \/ ExportGenerate \/ Export

SpecExport == Init /\ [][NextExport]_vars

\* the indices of the real matches of round r, and the i-th of them (from 1)
RealIdx(tn, r) == {k \in DOMAIN tn.matches : tn.matches[k].round = r}

NthReal(tn, r, i) ==
    tn.matches[CHOOSE x \in RealIdx(tn, r) : Cardinality({y \in RealIdx(tn, r) : y < x}) = i - 1]

IsPlaceholder(m) == m.id < 0

Exported == last.op = "exportTournamentToPDF"

\* C12: the projection of a tournament has log2(nextPow2(teamCount)) rounds
\* numbered from 1, round r has nextPow2(teamCount)/2^r matches, position i
\* holds the i-th real match of the round if there is one and a placeholder
\* only if there is none
C12_ProjectionIsFullBracket ==
    Exported =>
        LET tn == TournamentById(last.tid)
            size == nextPow2(Len(tn.teams))
            rounds == layout.rounds
        IN  /\ Len(rounds) = Log2(size)
            /\ \A r \in DOMAIN rounds :
                   /\ rounds[r].round = r
                   /\ Len(rounds[r].matches) * Pow2(r) = size
                   /\ \A i \in DOMAIN rounds[r].matches :
                          IF i <= Cardinality(RealIdx(tn, r))
                          THEN rounds[r].matches[i] = NthReal(tn, r, i)
                          ELSE IsPlaceholder(rounds[r].matches[i])

\* a projection with real matches and placeholders in the same round
C12_Witness ==
    /\ Exported
    /\ \E r \in DOMAIN layout.rounds :
           /\ r > 1
           /\ \E i \in DOMAIN layout.rounds[r].matches : IsPlaceholder(layout.rounds[r].matches[i])
           /\ \E i \in DOMAIN layout.rounds[r].matches : ~IsPlaceholder(layout.rounds[r].matches[i])

ExportedPlaceholders ==
    UNION {{m \in Range(layout.rounds[r].matches) : IsPlaceholder(m)} : r \in DOMAIN layout.rounds}

TileDraws == [i \in 0..64 |-> {i}]

TileCreate ==
    \E n \in 2..MaxTileTeams :
        createTournament(EntryList(n), EntryList(n)[1], EntryList(n)[2], TileDraws, 1)

TileExport == ~Tiling /\ \E tid \in TournamentIds : exportToCanvas(tid)

NextTile == TileCreate \/ TileExport \/ TileLoop \/ TileDown \/ TileUp \/ TileSlice

SpecTile == Init /\ [][NextTile]_vars

\* C14: no page break lies strictly inside a drawn match box
C14_NoCutInsideBox ==
    Tiling =>
        \A k \in DOMAIN layout.cuts :
            ~\E b \in Boxes(layout.counts) :
                roundY(b[1], b[2]) < layout.cuts[k] /\ layout.cuts[k] < roundY(b[1], b[2]) + boxH

\* the positions each search can end on
EarlierCuts ==
    {y \in 0..layout.desired :
        /\ y < layout.desired /\ (layout.desired - y) % 2 = 0
        /\ 10 * (y + 2) > 10 * layout.sy + minChunk10(layout.tile)}

LaterCuts ==
    {y \in layout.desired..(layout.height + 2) :
        /\ y > layout.desired /\ (y - layout.desired) % 2 = 0
        /\ y - 2 < layout.height
        /\ 10 * (y - 2) < 10 * layout.sy + 14 * layout.tile}

SafeCuts(S) == {y \in S : ~cutsThroughCard(layout.counts, y)}

Searching == Tiling /\ layout.pc \in {"down", "up", "slice"} /\ cutsThroughCard(layout.counts, layout.desired)

\* C15: with the desired cut in a no-cut band the later positions are
\* searched first: an earlier position is tried only if no later position
\* within the bound is safe, and an unsafe cut is used only if no position of
\* either search is safe
C15_LaterFirst ==
    Searching =>
        /\ (layout.pc = "down" /\ layout.cut < layout.desired) => SafeCuts(LaterCuts) = {}
        /\ (layout.pc = "slice" /\ cutsThroughCard(layout.counts, layout.cut)) =>
               SafeCuts(LaterCuts) = {} /\ SafeCuts(EarlierCuts) = {}

\* C15 as amended: the earlier positions are searched first, the later ones
\* only when the earlier search has reached its bound without a safe
\* position, and an unsafe cut (the desired one) is used only if no position
\* of either search is safe
C15_EarlierFirst ==
    [][(Tiling /\ Tiling' /\ cutsThroughCard(layout.counts, layout.desired)) =>
        /\ (layout.pc # "up" /\ layout'.pc = "up") =>
               /\ layout.pc = "down"
               /\ 10 * layout.cut <= 10 * layout.sy + minChunk10(layout.tile)
               /\ SafeCuts(EarlierCuts) = {}
        /\ (layout.pc = "down" /\ layout'.pc = "slice") =>
               /\ layout'.cut = MaxOf(SafeCuts(EarlierCuts))
               /\ SafeCuts(EarlierCuts) # {}
        /\ (layout.pc = "up" /\ layout'.pc = "slice") =>
               IF SafeCuts(LaterCuts) # {}
               THEN layout'.cut = MinOf(SafeCuts(LaterCuts))
               ELSE layout'.cut = layout.desired]_vars

\* a page cut found later after the earlier search failed, and a page cut
\* left in a band after both searches failed
C15_Witness ==
    /\ Tiling
    /\ layout.pc = "slice"
    /\ cutsThroughCard(layout.counts, layout.desired)
    /\ \/ layout.cut > layout.desired
       \/ cutsThroughCard(layout.counts, layout.cut)

\* ---------------------------------------------------------------------
\* the BYEs of five entrants
FiveCreated == last.op = "createTournament" /\ Len(tournaments[1].teams) = 5

SeedMatches(tn) ==
    {k \in DOMAIN Round1Of(tn) :
        {Round1Of(tn)[k].aId, Round1Of(tn)[k].bId} \cap {tn.seedTopId, tn.seedBottomId} # {}}

ByeMatches(tn) == {k \in DOMAIN Round1Of(tn) : Round1Of(tn)[k].status = "BYE"}

\* C17: with 5 entrants (size 8, seeds in slots 0 and 7) the slots 1 and 6
\* are not void, no seed's round-1 match is a BYE and one or two round-1
\* matches are BYEs
C17_SeedsPlayRoundOne ==
    FiveCreated =>
        /\ last.slots[1] # NULL /\ last.slots[6] # NULL
        /\ SeedMatches(tournaments[1]) \cap ByeMatches(tournaments[1]) = {}
        /\ Cardinality(ByeMatches(tournaments[1])) \in {1, 2}

\* C17 as amended: the three void slots are 1, 5 and 6, so both seeds' round-1
\* matches are BYEs and three of the four round-1 matches are BYEs
C17_SeedsGetByes ==
    FiveCreated =>
        /\ {i \in DOMAIN last.slots : last.slots[i] = NULL} = {1, 5, 6}
        /\ Len(Round1Of(tournaments[1])) = 4
        /\ Cardinality(SeedMatches(tournaments[1])) = 2
        /\ SeedMatches(tournaments[1]) \subseteq ByeMatches(tournaments[1])
        /\ Cardinality(ByeMatches(tournaments[1])) = 3

C17_Witness ==
    /\ FiveCreated
    /\ Round1Of(tournaments[1])[1].aId = tournaments[1].seedTopId
    /\ Round1Of(tournaments[1])[1].bId = NULL
    /\ Round1Of(tournaments[1])[4].aId = NULL
    /\ Round1Of(tournaments[1])[4].bId = tournaments[1].seedBottomId

\* ---------------------------------------------------------------------
\* the builder form
NameTexts == {<<1, 2>>, <<1, 2, 3>>, <<1, 101>>, <<1>>}

BuilderEdit ==
    /\ calls < MaxBuilderCalls
    /\ \/ \E v \in {0, 1, 200} : setBuilderField("tName", v)
       \/ \E v \in NameTexts : setBuilderField("namesText", v)
       \/ \E v \in Range(BuilderNames) \cup {0} : setBuilderField("seed1", v)
       \/ \E v \in Range(BuilderNames) \cup {0} : setBuilderField("seed2", v)
       \/ \E v \in TournamentIds \cup {NEW_TOURNEY_SENTINEL} : setBuilderField("targetTournamentId", v)

BuilderLogin == calls < MaxBuilderCalls /\ handleLogin

BuilderLogout == calls < MaxBuilderCalls /\ handleLogout

BuilderLoad == calls < MaxBuilderCalls /\ loadTeamsFromText

BuilderCreate == calls < MaxBuilderCalls /\ createTournamentClick(TileDraws)

NextBuilder == BuilderEdit \/ BuilderLogin \/ BuilderLogout \/ BuilderLoad \/ BuilderCreate

SpecBuilder == Init /\ [][NextBuilder]_vars

\* a precondition of createTournament fails
CreateRejected ==
    \/ ~isAdmin
    \/ \E i, j \in DOMAIN builder.builderTeams :
           i # j /\ Lower(builder.builderTeams[i].name) = Lower(builder.builderTeams[j].name)
    \/ builder.tName \in {0, 200}
    \/ Len(builder.builderTeams) < 2
    \/ builder.seed1 = 0 \/ builder.seed2 = 0 \/ builder.seed1 = builder.seed2
    \/ \A i \in DOMAIN builder.builderTeams : builder.builderTeams[i].name # builder.seed1
    \/ \A i \in DOMAIN builder.builderTeams : builder.builderTeams[i].name # builder.seed2

\* C18: createTournament with a failing precondition changes neither the
\* tournament lists nor the builder
C18_RejectedCreateChangesNothing ==
    [][(last'.op = "createTournamentClick" /\ CreateRejected) =>
        /\ tournaments' = tournaments
        /\ deletedTournaments' = deletedTournaments
        /\ builder' = builder]_vars

\* a click rejected only because the second seed, left from an earlier
\* entry list, is not among the entries
C18_Witness ==
    /\ last.op = "createTournamentClick"
    /\ isAdmin
    /\ builder.tName = 1
    /\ builder.targetTournamentId = NEW_TOURNEY_SENTINEL
    /\ Len(builder.builderTeams) >= 2
    /\ builder.seed1 # 0 /\ builder.seed2 # 0 /\ builder.seed1 # builder.seed2
    /\ \E i \in DOMAIN builder.builderTeams : builder.builderTeams[i].name = builder.seed1
    /\ \A i \in DOMAIN builder.builderTeams : builder.builderTeams[i].name # builder.seed2

\* ---------------------------------------------------------------------
\* one load for every outcome of the fetch
Fields == {Undefined, NotArray, Arr(<<>>), Arr(<<1>>)}

FetchOutcomes ==
    {[kind |-> k, record |-> NoRecord] : k \in {"networkError", "notFound", "serverError", "malformedBody"}}
    \cup {[kind |-> "ok", record |-> r] :
             r \in {NoRecord, FalsyRecord} \cup {Doc(t, d) : t \in Fields, d \in Fields}}

InitLoad ==
    /\ isAdmin = FALSE
    /\ tournaments = <<>>
    /\ deletedTournaments = <<>>
    /\ deleteTargetId = NULL
    /\ uidCtr = 1
    /\ calls = 0
    /\ last = Call("init", NULL, NULL, NULL, <<>>)
    /\ layout = [teamCount |-> 0, pos |-> <<>>, rounds |-> <<>>]
    /\ builder = ClearedBuilder
    /\ \E a \in {"db", "pages", "api"} : \E f \in FetchOutcomes :
           net = [adapter |-> a, fetch |-> f, result |-> NoResult]

LoadDb == loadDone("db", dbLoadStoreOnce(net.fetch))

LoadPages == loadDone("pages", pagesLoadStoreOnce(net.fetch))

LoadApi == loadDone("api", handlerGet(net.fetch))

NextLoad == LoadDb \/ LoadPages \/ LoadApi

SpecLoad == InitLoad /\ [][NextLoad]_vars

\* the document could not be read, or there is none
Unreadable(f) == f.kind # "ok" \/ f.record.type = "null"

\* C19: every load yields an object with two arrays, both empty when the
\* document is missing, unreadable or malformed
C19_LoadYieldsArrays ==
    net.result # NoResult =>
        /\ net.result.kind = "returns"
        /\ net.result.value.type = "object"
        /\ net.result.value.tournaments.type = "array"
        /\ net.result.value.deleted.type = "array"
        /\ Unreadable(net.fetch) =>
             net.result.value.tournaments.items = <<>> /\ net.result.value.deleted.items = <<>>

\* ---------------------------------------------------------------------------
\* saving: the Save button sends both lists to the store
\* ---------------------------------------------------------------------------

\* the object saveAll hands to saveStore
SavePayload == [tournaments |-> tournaments, deleted |-> deletedTournaments]

\* saveAll up to the await: a visitor is turned away, an admin's payload is
\* on its way to the store
saveAll ==
    /\ net' = IF ~isAdmin
              THEN [net EXCEPT !.alert = "Admin only."]
              ELSE [net EXCEPT !.pending = Append(@, SavePayload)]
    /\ calls' = calls + 1
    /\ last' = Call("saveAll", NULL, NULL, NULL, <<>>)
    /\ UNCHANGED <<builder, isAdmin, tournaments, deletedTournaments, deleteTargetId, uidCtr, layout>>

\* a rejected save that reloads both lists from the store
saveStoreDoneReloads(i, outcome) ==
    /\ i \in DOMAIN net.pending
    /\ net' = IF outcome = "ok"
              THEN [net EXCEPT !.remote = net.pending[i], !.pending = Without(@, i),
                               !.alert = "Saved."]
              ELSE [net EXCEPT !.pending = Without(@, i), !.rejected = <<net.pending[i]>>,
                               !.alert = "Save failed. Check console."]
    /\ tournaments' = IF outcome = "ok" THEN tournaments ELSE net.remote.tournaments
    /\ deletedTournaments' = IF outcome = "ok" THEN deletedTournaments ELSE net.remote.deleted
    /\ last' = Call("saveStoreDone", NULL, NULL, NULL, <<>>)
    /\ UNCHANGED <<builder, isAdmin, deleteTargetId, uidCtr, calls, layout>>

\* the PUT of the i-th payload in flight settles: the store takes the
\* document when the response is OK; a response that is not OK and a network
\* error both reject, and saveAll's catch only reports
saveStoreDone(i, outcome) ==
    /\ i \in DOMAIN net.pending
    /\ net' = IF outcome = "ok"
              THEN [net EXCEPT !.remote = net.pending[i], !.pending = Without(@, i),
                               !.alert = "Saved."]
              ELSE [net EXCEPT !.pending = Without(@, i), !.rejected = <<net.pending[i]>>,
                               !.alert = "Save failed. Check console."]
    /\ last' = Call("saveStoreDone", NULL, NULL, NULL, <<>>)
    /\ UNCHANGED <<builder, isAdmin, tournaments, deletedTournaments, deleteTargetId, uidCtr,
                   calls, layout>>

SaveOutcomes == {"ok", "notOk", "networkError"}

SaveLogout == calls < MaxCalls /\ isAdmin /\ handleLogout

SaveAll == calls < MaxCalls /\ saveAll

SaveDone == \E i \in DOMAIN net.pending : \E outcome \in SaveOutcomes : saveStoreDone(i, outcome)

NextSave ==
    Create \/ Pick \/ OpenDelete \/ ConfirmDelete \/ Restore \/ SaveLogout \/ SaveAll \/ SaveDone

SpecSave == Init /\ [][NextSave]_vars

\* C20: no step of saveAll or of its saveStore call, resolved or rejected,
\* changes the tournaments or the deleted list, and every saveAll of an admin
\* sends the two lists as they are then; so a saveAll after a rejected one
\* sends the same edits
C20_SaveKeepsLists ==
    [][net' # net =>
         /\ tournaments' = tournaments
         /\ deletedTournaments' = deletedTournaments
         /\ Len(net'.pending) > Len(net.pending) =>
              net'.pending = Append(net.pending,
                                    [tournaments |-> tournaments, deleted |-> deletedTournaments])]_vars

\* a save of a tournament list was rejected, the store still
\* has nothing, and the next saveAll has sent the same document
C20_Witness ==
    /\ last.op = "saveAll"
    /\ net.rejected = <<SavePayload>>
    /\ net.pending = net.rejected
    /\ net.alert = "Save failed. Check console."
    /\ tournaments # <<>>
    /\ net.remote.tournaments = <<>>

\* ---------------------------------------------------------------------------
\* soft delete and restore
\* ---------------------------------------------------------------------------

IdsOf(list) == {list[i].id : i \in DOMAIN list}

\* the lists after confirmDelete of tid followed by restoreTournament of tid
DeletedThenRestored(tid) ==
    LET gone == archiveIn(tournaments, deletedTournaments, tid)
    IN  restoreIn(gone.tournaments, gone.deleted, tid)

\* C21: deleting an active tournament and restoring it puts the same
\* tournament at the head of the active list, leaves the others in their
\* order and the archive as it was before the deletion; no id is ever in the
\* active list and in the archive at once
C21_DeleteRestoreRoundTrip ==
    /\ IdsOf(tournaments) \cap IdsOf(deletedTournaments) = {}
    /\ \A i \in DOMAIN tournaments :
         LET tid == tournaments[i].id
             gone == archiveIn(tournaments, deletedTournaments, tid)
             back == DeletedThenRestored(tid)
         IN  /\ tid \notin IdsOf(gone.tournaments)
             /\ tid \in IdsOf(gone.deleted)
             /\ back.tournaments = <<tournaments[i]>> \o Without(tournaments, i)
             /\ back.deleted = deletedTournaments
             /\ tid \notin IdsOf(back.deleted)

\* a tournament with a decided match was deleted and restored: it heads the
\* active list again
C21_Witness ==
    /\ last.op = "restoreTournament"
    /\ tournaments # <<>>
    /\ tournaments[1].id = last.tid
    /\ \E i \in DOMAIN tournaments[1].matches : tournaments[1].matches[i].winnerId # NULL

\* ---------------------------------------------------------------------------
\* spreadsheet export
\* ---------------------------------------------------------------------------

\* stageShort: the sheet label, by the number of matches of the round; the
\* labels "F", "SF", "QF" are the numbers of entrants 2, 4, 8 here
stageShort(count) == IF count <= 0 THEN 0 ELSE count * 2

RECURSIVE SortedRounds(_)
SortedRounds(S) ==
    IF S = {} THEN <<>> ELSE <<MinOf(S)>> \o SortedRounds(S \ {MinOf(S)})

\* groupMatchesByRound: the rounds that have a match, ascending, each with
\* its matches in list order
groupMatchesByRound(tn) ==
    LET rs == SortedRounds({tn.matches[i].round : i \in DOMAIN tn.matches})
    IN  [k \in DOMAIN rs |-> [round |-> rs[k], matches |-> RoundMatches(tn, rs[k])]]

\* one sheet per round: its label and one row per match under the header row
Sheets(grouped) ==
    [k \in DOMAIN grouped |->
        [label |-> stageShort(Len(grouped[k].matches)), rows |-> 1 + Len(grouped[k].matches)]]

NothingExported == [alert |-> "none", written |-> FALSE, sheets |-> <<>>]

\* an export that writes the workbook whatever the number of rounds
ExcelOutcomeNoGuard(tn, threw) ==
    LET grouped == groupMatchesByRound(tn)
    IN  IF threw
        THEN [alert |-> "Excel export failed. Check console.", written |-> FALSE, sheets |-> <<>>]
        ELSE [alert |-> "none", written |-> TRUE, sheets |-> Sheets(grouped)]

\* what the user sees and what is written: nothing but an alert when there is
\* no round; an exception of the workbook library is caught and reported
ExcelOutcome(tn, threw) ==
    LET grouped == groupMatchesByRound(tn)
    IN  IF Len(grouped) = 0
        THEN [alert |-> "No matches to export.", written |-> FALSE, sheets |-> <<>>]
        ELSE IF threw
        THEN [alert |-> "Excel export failed. Check console.", written |-> FALSE, sheets |-> <<>>]
        ELSE [alert |-> "none", written |-> TRUE, sheets |-> Sheets(grouped)]

exportTournamentToExcel(tournamentId, threw) ==
    /\ layout' = ExcelOutcome(TournamentById(tournamentId), threw)
    /\ calls' = calls + 1
    /\ last' = Call("exportTournamentToExcel", tournamentId, NULL, NULL, <<>>)
    /\ UNCHANGED <<builder, net, isAdmin, tournaments, deletedTournaments, deleteTargetId, uidCtr>>

\* a stored tournament whose match list is empty, as the load effect takes it
\* from the store
StoredWithoutMatches ==
    [id |-> 50, teams |-> <<[id |-> 51, name |-> 1], [id |-> 52, name |-> 2]>>, matches |-> <<>>,
     status |-> "active", seedTopId |-> 51, seedBottomId |-> 52, championId |-> NULL]

InitExcel ==
    /\ isAdmin = TRUE
    /\ tournaments \in {<<>>, <<StoredWithoutMatches>>}
    /\ deletedTournaments = <<>>
    /\ deleteTargetId = NULL
    /\ uidCtr = 1
    /\ calls = 0
    /\ last = Call("init", NULL, NULL, NULL, <<>>)
    /\ layout = NothingExported
    /\ builder = ClearedBuilder
    /\ net = Offline

ExcelExport ==
    /\ calls < MaxCalls
    /\ \E tid \in TournamentIds : \E threw \in BOOLEAN : exportTournamentToExcel(tid, threw)

NextExcel == Create \/ Pick \/ Generate \/ ExcelExport

SpecExcel == InitExcel /\ [][NextExcel]_vars

\* C22: after exportTournamentToExcel on a tournament without matches the
\* user has been shown an error and no workbook has been written
C22_EmptyExportRejected ==
    (last.op = "exportTournamentToExcel" /\ TournamentById(last.tid).matches = <<>>) =>
        /\ layout.alert # "none"
        /\ ~layout.written

\* the stored tournament without matches was exported: only the alert
C22_Witness ==
    /\ last.op = "exportTournamentToExcel"
    /\ TournamentById(last.tid).matches = <<>>
    /\ layout = [alert |-> "No matches to export.", written |-> FALSE, sheets |-> <<>>]

\* ---------------------------------------------------------------------------
\* uniqueNames
\* ---------------------------------------------------------------------------

MaxNamesLen == 5

\* "", "a", "b", "A", "B", " ", " a ", " A "
NameCodes == {0, 1, 2, 101, 102, 200, 201, 301}

NameLists == UNION {[1..n -> NameCodes] : n \in 0..MaxNamesLen}

InitNames ==
    /\ isAdmin = TRUE
    /\ tournaments = <<>>
    /\ deletedTournaments = <<>>
    /\ deleteTargetId = NULL
    /\ uidCtr = 1
    /\ calls = 0
    /\ last = Call("init", NULL, NULL, NULL, <<>>)
    /\ \E arr \in NameLists : layout = [arr |-> arr, out |-> <<>>, again |-> <<>>, pc |-> "input"]
    /\ builder = ClearedBuilder
    /\ net = Offline

\* uniqueNames(arr)
NamesUnique ==
    /\ layout.pc = "input"
    /\ layout' = [layout EXCEPT !.out = uniqueNames(layout.arr), !.pc = "once"]
    /\ last' = Call("uniqueNames", NULL, NULL, NULL, <<>>)
    /\ UNCHANGED <<builder, net, isAdmin, tournaments, deletedTournaments, deleteTargetId,
                   uidCtr, calls>>

\* uniqueNames(uniqueNames(arr))
NamesUniqueAgain ==
    /\ layout.pc = "once"
    /\ layout' = [layout EXCEPT !.again = uniqueNames(layout.out), !.pc = "twice"]
    /\ last' = Call("uniqueNames", NULL, NULL, NULL, <<>>)
    /\ UNCHANGED <<builder, net, isAdmin, tournaments, deletedTournaments, deleteTargetId,
                   uidCtr, calls>>

NextNames == NamesUnique \/ NamesUniqueAgain

SpecNames == InitNames /\ [][NextNames]_vars

\* the positions of arr whose name is not blank and is not, in any casing,
\* the name of an earlier position
FirstOccurrences(arr) ==
    {i \in DOMAIN arr :
        /\ TrimName(arr[i]) # 0
        /\ \A j \in 1..(i - 1) : Lower(TrimName(arr[j])) # Lower(TrimName(arr[i]))}

\* the k-th smallest member of a set of positions
KthOf(S, k) == CHOOSE i \in S : Cardinality({j \in S : j <= i}) = k

\* C23: uniqueNames returns, in input order and trimmed, the first
\* occurrence of every non-blank name, names compared without regard to
\* case; uniqueNames of that result is the same list
C23_UniqueNamesFirstSpellings ==
    /\ layout.pc \in {"once", "twice"} =>
         LET first == FirstOccurrences(layout.arr)
         IN  /\ Len(layout.out) = Cardinality(first)
             /\ \A k \in 1..Len(layout.out) :
                  layout.out[k] = TrimName(layout.arr[KthOf(first, k)])
    /\ layout.pc = "twice" => layout.again = layout.out

\* " a ", "A", "B", "b", " " gives "a", "B", also when applied again
C23_Witness ==
    /\ layout.pc = "twice"
    /\ layout.arr = <<201, 101, 102, 2, 200>>
    /\ layout.out = <<1, 102>>
    /\ layout.again = <<1, 102>>

\* ---------------------------------------------------------------------------
\* the seeds take the first BYEs
\* ---------------------------------------------------------------------------

\* the number of slots left void by the tournament just created
VoidCount == Cardinality(DOMAIN last.slots) - Len(tournaments[1].teams)

\* C24: when a tournament is created with fewer entrants than slots, slot
\* size-2, next to the bottom seed, is void and the bottom seed's match is a
\* BYE; with two or more void slots, slot 1, next to the top seed, is void as
\* well and the top seed's match is a BYE
C24_SeedsGetFirstByes ==
    last.op = "createTournament" =>
        LET tn == tournaments[1]
            size == Cardinality(DOMAIN last.slots)
            r1 == Round1Of(tn)
        IN  /\ VoidCount >= 1 =>
                 /\ last.slots[size - 2] = NULL
                 /\ r1[Len(r1)].bId = tn.seedBottomId
                 /\ r1[Len(r1)].status = "BYE"
            /\ VoidCount >= 2 =>
                 /\ last.slots[1] = NULL
                 /\ r1[1].aId = tn.seedTopId
                 /\ r1[1].status = "BYE"

\* 7 entrants in 8 slots: only slot 6 is void, the top seed has an opponent
C24_Witness ==
    /\ last.op = "createTournament"
    /\ Len(tournaments[1].teams) = 7
    /\ {i \in DOMAIN last.slots : last.slots[i] = NULL} = {6}
    /\ Round1Of(tournaments[1])[4].status = "BYE"
    /\ Round1Of(tournaments[1])[1].status = "Scheduled"

\* ---------------------------------------------------------------------------
\* entries added to a tournament in round 1
\* ---------------------------------------------------------------------------

\* the tournament the last applyEntriesToTournament call was about
Applied == TournamentById(last.tid)

\* C25: after applyEntriesToTournament on a tournament still in round 1 no
\* match id occurs twice, every entrant is on exactly one side of exactly one
\* round-1 match, the top seed is in the first match and the bottom seed in
\* the last, also when both seeds share a round-1 match
C25_AppliedEntriesKeepBracket ==
    (last.op = "applyEntriesToTournament" /\ last.tid \in TournamentIds /\ maxRound(Applied) = 1) =>
        LET r1 == Round1Of(Applied)
        IN  /\ \A i, j \in DOMAIN Applied.matches :
                 Applied.matches[i].id = Applied.matches[j].id => i = j
            /\ \A id \in TeamIds(Applied) : Cardinality(SidesHolding(Applied, id)) = 1
            /\ Applied.seedTopId \in {r1[1].aId, r1[1].bId}
            /\ Applied.seedBottomId \in {r1[Len(r1)].aId, r1[Len(r1)].bId}

\* ---------------------------------------------------------------------------
\* a tournament played to its end
\* ---------------------------------------------------------------------------

MaxRunCalls == 16

\* generateNextRound pressed again on a completed tournament
RunGenerateDone ==
    /\ calls < MaxRunCalls
    /\ \E tid \in TournamentIds :
         /\ TournamentById(tid).status = "completed"
         /\ generateNextRound(tid)

NextRun == ForwardCreate \/ ForwardPick \/ ForwardGenerate \/ RunGenerateDone

\* every playable match of the current round gets one of its participants
\* as winner, and the next round is then asked for
SpecRun == Init /\ [][NextRun]_vars

\* log2(nextPow2(N)) for the N entrants of tn
FullRounds(tn) == Log2(nextPow2(Len(tn.teams)))

RoundsShrink ==
    \A i \in DOMAIN tournaments :
        LET tn == tournaments[i]
        IN  /\ maxRound(tn) <= FullRounds(tn)
            /\ \A r \in 1..(maxRound(tn) - 1) :
                 Len(RoundMatches(tn, r + 1)) < Len(RoundMatches(tn, r))
            /\ tn.status = "completed" =>
                 /\ maxRound(tn) = FullRounds(tn)
                 /\ tn.championId # NULL

\* an active tournament always has a match to decide or a round to generate
NeverStuck ==
    \A i \in DOMAIN tournaments :
        tournaments[i].status = "active" =>
            SomeUndecided(tournaments[i]) \/ canGenerateNext(tournaments[i])

\* the picks and generations an active tournament can still need: the
\* undecided matches of the current round, a full round and its generation
\* for every round to come, and the generation that completes
RECURSIVE RoundsAhead(_, _)
RoundsAhead(full, r) ==
    IF r >= full THEN 0 ELSE Pow2(full - r - 1) + 1 + RoundsAhead(full, r + 1)

StepsLeft(tn) ==
    IF tn.status = "completed" THEN 0
    ELSE 1 + RoundsAhead(FullRounds(tn), maxRound(tn))
           + Cardinality({k \in CurrentIdx(tn) :
                            Playable(tn.matches[k]) /\ tn.matches[k].winnerId = NULL})

\* C26: played forward, every round has fewer matches than the round before
\* and no round beyond log2(nextPow2(N)) is ever generated; an active
\* tournament always has a next pick or generation, each of which brings it
\* closer to "completed", which it reaches with exactly log2(nextPow2(N))
\* rounds
C26_PlayEndsAfterFullRounds ==
    /\ [](RoundsShrink /\ NeverStuck)
    /\ [][(tournaments # <<>> /\ tournaments[1].status = "active") =>
             /\ tournaments' # <<>>
             /\ StepsLeft(tournaments'[1]) < StepsLeft(tournaments[1])]_vars

\* 9 entrants: rounds of 6, 3, 2 and 1 matches, completed, and
\* generateNextRound pressed once more
C26_Witness ==
    /\ tournaments # <<>>
    /\ Len(tournaments[1].teams) = 9
    /\ tournaments[1].status = "completed"
    /\ [r \in 1..4 |-> Len(RoundMatches(tournaments[1], r))] = <<6, 3, 2, 1>>
    /\ last.op = "generateNextRound"
    /\ calls = 14

\* ---------------------------------------------------------------------------
\* picks in the current round only
\* ---------------------------------------------------------------------------

\* pickWinner on a match of the current round, with any entrant or none as winner
CurrentPick ==
    /\ calls < MaxCalls
    /\ \E tid \in TournamentIds :
         LET tn == TournamentById(tid)
         IN  \E k \in CurrentIdx(tn) : \E wid \in TeamIds(tn) \cup {NULL} :
                 pickWinner(tid, tn.matches[k].id, wid)

NextCurrent == PlayCreate \/ CurrentPick \/ Generate

SpecCurrent == Init /\ [][NextCurrent]_vars

\* round r+1 pairs the winners of round r in match order
PairedFromBelow(tn) ==
    \A r \in 1..(maxRound(tn) - 1) :
        LET below == RoundMatches(tn, r)
            above == RoundMatches(tn, r + 1)
        IN  \A i \in 0..(Len(above) - 1) :
                /\ above[i + 1].aId = below[2 * i + 1].winnerId
                /\ above[i + 1].bId =
                       IF 2 * i + 2 <= Len(below) THEN below[2 * i + 2].winnerId ELSE NULL

\* no entrant is in two matches of one round
OncePerRound(tn) ==
    \A j, k \in DOMAIN tn.matches :
        (j # k /\ tn.matches[j].round = tn.matches[k].round) =>
            ({tn.matches[j].aId, tn.matches[j].bId} \cap {tn.matches[k].aId, tn.matches[k].bId})
                \subseteq {NULL}

\* C27: while winners are only picked in the current round, match i of round
\* r+1 holds the winners of matches 2i and 2i+1 of round r (no entrant where
\* there is no match 2i+1) and no entrant is in two matches of one round
C27_RoundsMirrorWinners ==
    \A t \in DOMAIN tournaments :
        PairedFromBelow(tournaments[t]) /\ OncePerRound(tournaments[t])

\* ---------------------------------------------------------------------------
\* the save throttle
\* ---------------------------------------------------------------------------

MIN_SAVE_GAP_MS == 1500

MaxClock == 5000

MaxSaves == 3

\* the clock starts past the first gap (lastSaveAt is 0 and Date.now() is not
\* small); no call has been made
InitThrottle ==
    /\ isAdmin = TRUE
    /\ tournaments = <<>>
    /\ deletedTournaments = <<>>
    /\ deleteTargetId = NULL
    /\ uidCtr = 1
    /\ calls = 0
    /\ last = Call("init", NULL, NULL, NULL, <<>>)
    /\ layout = [teamCount |-> 0, pos |-> <<>>, rounds |-> <<>>]
    /\ builder = ClearedBuilder
    /\ net = [now |-> MIN_SAVE_GAP_MS, lastSaveAt |-> 0, timers |-> <<>>, puts |-> <<>>]

\* time passes, half a second at a time
ClockTick ==
    /\ net.now + 500 <= MaxClock
    /\ net' = [net EXCEPT !.now = @ + 500]
    /\ UNCHANGED <<builder, isAdmin, tournaments, deletedTournaments, deleteTargetId, uidCtr,
                   calls, last, layout>>

\* saveStore up to its first await: inside the gap it sets a timer for the
\* rest of the gap; otherwise it stamps lastSaveAt and starts the PUT
saveStore ==
    /\ calls < MaxSaves
    /\ net' = IF net.now - net.lastSaveAt < MIN_SAVE_GAP_MS
              THEN [net EXCEPT !.timers =
                        Append(@, net.now + (MIN_SAVE_GAP_MS - (net.now - net.lastSaveAt)))]
              ELSE [net EXCEPT !.lastSaveAt = net.now, !.puts = Append(@, net.now)]
    /\ calls' = calls + 1
    /\ last' = Call("saveStore", NULL, NULL, NULL, <<>>)
    /\ UNCHANGED <<builder, isAdmin, tournaments, deletedTournaments, deleteTargetId, uidCtr,
                   layout>>

\* a timer that is due fires, at its time or later: the call stamps
\* lastSaveAt and starts its PUT
saveStoreResume ==
    /\ \E i \in DOMAIN net.timers :
         /\ net.timers[i] <= net.now
         /\ net' = [net EXCEPT !.timers = Without(@, i), !.lastSaveAt = net.now,
                               !.puts = Append(@, net.now)]
    /\ last' = Call("saveStoreResume", NULL, NULL, NULL, <<>>)
    /\ UNCHANGED <<builder, isAdmin, tournaments, deletedTournaments, deleteTargetId, uidCtr,
                   calls, layout>>

NextThrottle == ClockTick \/ saveStore \/ saveStoreResume

SpecThrottle == InitThrottle /\ [][NextThrottle]_vars

\* C28: any two PUT requests are started at least MIN_SAVE_GAP_MS apart
C28_PutsKeepGap ==
    \A i, j \in DOMAIN net.puts :
        i < j => net.puts[j] - net.puts[i] >= MIN_SAVE_GAP_MS

\* ---------------------------------------------------------------------------
\* the tiling loop on any canvas height and tile height
\* ---------------------------------------------------------------------------

MaxLoopHeight == 220

MaxLoopTile == 24

\* the canvas of a single match, cut to any height and tiled with any tile
\* height from 1
InitLoop ==
    /\ isAdmin = TRUE
    /\ tournaments = <<>>
    /\ deletedTournaments = <<>>
    /\ deleteTargetId = NULL
    /\ uidCtr = 1
    /\ calls = 0
    /\ last = Call("exportToCanvas", NULL, NULL, NULL, <<>>)
    /\ \E height \in 1..MaxLoopHeight : \E tile \in 1..MaxLoopTile :
         layout = [counts |-> [ri \in {0} |-> 1], height |-> height, tile |-> tile,
                   sy |-> 0, desired |-> 0, cut |-> 0, pc |-> "loop", cuts |-> <<>>,
                   slices |-> <<>>]
    /\ builder = ClearedBuilder
    /\ net = Offline

NextLoop == TileLoop \/ TileDown \/ TileUp \/ TileSlice

SpecLoop == InitLoop /\ [][NextLoop]_vars

\* the slices follow each other from 0, each at least 1 high, inside the
\* canvas; the loop ends with the canvas covered
SlicesTile ==
    /\ \A k \in DOMAIN layout.slices :
         /\ layout.slices[k].sh >= 1
         /\ layout.slices[k].sy =
                IF k = 1 THEN 0 ELSE layout.slices[k - 1].sy + layout.slices[k - 1].sh
         /\ layout.slices[k].sy + layout.slices[k].sh <= layout.height
    /\ layout.sy = IF layout.slices = <<>> THEN 0
                   ELSE layout.slices[Len(layout.slices)].sy + layout.slices[Len(layout.slices)].sh
    /\ layout.pc = "done" => layout.sy = layout.height

\* a bound on the steps the loop can still take: the rows left, and within a
\* page the phase and the distance its search can still go
LoopRank ==
    LET w == 20 * (layout.height + layout.tile) + 100
        page == 4 * w * (layout.height - layout.sy)
    IN  CASE layout.pc = "done" -> 0
          [] layout.pc = "loop" -> page + 3 * w
          [] layout.pc = "down" -> page + 2 * w + 10 * (layout.cut - layout.sy) + 20
          [] layout.pc = "up" -> page + w + (10 * layout.sy + 14 * layout.tile - 10 * layout.cut) + 20
          [] layout.pc = "slice" -> page

\* C29: the tiling loop ends for every canvas height and every tile height
\* from 1 (each step lowers a bound that is never negative), and its slices
\* are contiguous from 0, at least 1 high, and cover the canvas exactly
C29_TilingTerminatesAndCovers ==
    /\ [](SlicesTile /\ LoopRank >= 0)
    /\ [][LoopRank' < LoopRank]_vars

\* a canvas of 200 rows tiled with tile height 1 to its end: pages of one
\* row, with cuts through the card of the match, and a taller page where the
\* search towards larger y found the end of the card
C29_Witness ==
    /\ layout.pc = "done"
    /\ layout.height = 200
    /\ layout.tile = 1
    /\ Len(layout.slices) >= 190
    /\ \E k \in DOMAIN layout.slices :
         cutsThroughCard(layout.counts, layout.slices[k].sy + layout.slices[k].sh)
    /\ \E k \in DOMAIN layout.slices : layout.slices[k].sh > 1

\* ---------------------------------------------------------------------------
\* the initial load and the edits made before it settles
\* ---------------------------------------------------------------------------

MaxRaceCalls == 3

\* a stored tournament of two entrants
StoredTournament == NewTournament(EntryList(2), 1, 2, <<>>, 60)

\* a list that keeps what is in memory behind the loaded items
LoadedListMerged(field, current) ==
    IF field.type = "array" THEN field.items \o current ELSE current

\* Array.isArray(field) ? field : []
LoadedList(field, current) == IF field.type = "array" THEN field.items ELSE <<>>

\* the load effect when the promise of loadStoreOnce settles: a resolved
\* promise sets both lists, a rejected one is caught and only logged
loadEffect(result) ==
    /\ net.result = NoResult
    /\ net' = [net EXCEPT !.result = result]
    /\ IF result.kind = "returns"
       THEN /\ tournaments' = LoadedList(result.value.tournaments, tournaments)
            /\ deletedTournaments' = LoadedList(result.value.deleted, deletedTournaments)
       ELSE UNCHANGED <<tournaments, deletedTournaments>>
    /\ last' = Call("loadEffect", NULL, NULL, NULL, <<>>)
    /\ UNCHANGED <<builder, isAdmin, deleteTargetId, uidCtr, calls, layout>>

RaceFields == {NotArray, Arr(<<>>), Arr(<<StoredTournament>>)}

RaceFetchOutcomes ==
    {[kind |-> k, record |-> NoRecord] : k \in {"networkError", "serverError"}}
    \cup {[kind |-> "ok", record |-> r] :
             r \in {NoRecord} \cup {Doc(t, d) : t \in RaceFields, d \in RaceFields}}

\* the page of an admin (gp_is_admin is kept in localStorage) with the load
\* in flight
InitRace ==
    /\ isAdmin = TRUE
    /\ tournaments = <<>>
    /\ deletedTournaments = <<>>
    /\ deleteTargetId = NULL
    /\ uidCtr = 1
    /\ calls = 0
    /\ last = Call("init", NULL, NULL, NULL, <<>>)
    /\ layout = [teamCount |-> 0, pos |-> <<>>, rounds |-> <<>>]
    /\ builder = ClearedBuilder
    /\ \E a \in {"db", "pages"} : \E f \in RaceFetchOutcomes :
           net = [adapter |-> a, fetch |-> f, result |-> NoResult]

RaceCreate ==
    /\ calls < MaxRaceCalls
    /\ \E n \in 2..MaxTeams : \E seeds \in SeedNames(EntryList(n)) :
        createTournament(EntryList(n), seeds[1], seeds[2], AllDraws, MaxTournaments)

RacePick ==
    /\ calls < MaxRaceCalls
    /\ \E tid \in TournamentIds :
        \E mid \in MatchIds(TournamentById(tid)) :
            \E wid \in TeamIds(TournamentById(tid)) \cup {NULL} :
                pickWinner(tid, mid, wid)

RaceOpenDelete == calls < MaxRaceCalls /\ \E tid \in TournamentIds : openDeleteModal(tid)

RaceConfirmDelete ==
    calls < MaxRaceCalls /\ deleteTargetId # NULL /\ confirmDelete(ADMIN_PASSWORD, TRUE)

RaceLoadDb == net.adapter = "db" /\ loadEffect(dbLoadStoreOnce(net.fetch))

RaceLoadPages == net.adapter = "pages" /\ loadEffect(pagesLoadStoreOnce(net.fetch))

NextRace ==
    RaceCreate \/ RacePick \/ RaceOpenDelete \/ RaceConfirmDelete \/ RaceLoadDb \/ RaceLoadPages

SpecRace == InitRace /\ [][NextRace]_vars

\* C30: when the initial load resolves, both lists become the loaded
\* snapshot (empty where the snapshot has no array), whatever was created or
\* edited in memory before; when it rejects, both lists stay as they were
C30_LoadReplacesEdits ==
    [][net'.result # net.result =>
         IF net'.result.kind = "returns"
         THEN /\ tournaments' = IF net'.result.value.tournaments.type = "array"
                                THEN net'.result.value.tournaments.items ELSE <<>>
              /\ deletedTournaments' = IF net'.result.value.deleted.type = "array"
                                       THEN net'.result.value.deleted.items ELSE <<>>
              /\ \A i \in DOMAIN tournaments :
                   tournaments[i].id # StoredTournament.id =>
                       \A j \in DOMAIN tournaments' : tournaments'[j].id # tournaments[i].id
         ELSE /\ tournaments' = tournaments
              /\ deletedTournaments' = deletedTournaments]_vars

\* a tournament was created and a winner picked before the load resolved
\* with the stored tournament: only the stored one is in memory
C30_Witness ==
    /\ last.op = "loadEffect"
    /\ net.result.kind = "returns"
    /\ calls >= 2
    /\ uidCtr > 1
    /\ tournaments = <<StoredTournament>>
    /\ deletedTournaments = <<>>
====
